---- MODULE Spec2Model ----
(***************************************************************************)
(* Model of conans/client/graph/graph_manager.py: GraphManager._load_graph *)
(* and the recursive build-requires expansion _recurse_build_requires.     *)
(* The graph builder, the graph container and the binary analyzer are      *)
(* collaborators that live outside graph_manager.py.                       *)
(***************************************************************************)
EXTENDS Integers, Sequences, FiniteSets, TLC

(* ---------------- bounds of the package universe ---------------------- *)
\* number of versions of the tool package "t": t/v declares t/(v-1) as its
\* build-requirement, so this is the longest recipe-declared chain of tools
MaxVer == 2

(* ---------------- references ------------------------------------------ *)
Ref(n, v) == [name |-> n, ver |-> v]
\* node.ref is None for virtual roots and conanfile.txt consumers
NoRef == [name |-> "", ver |-> 0]

Digits == <<"1", "2", "3", "4", "5", "6", "7", "8", "9">>

\* str(node.ref): "name/version", or "None" when the node has no reference
StrRef(r) ==
    IF r = NoRef THEN <<"N", "o", "n", "e">>
    ELSE <<r.name, "/", Digits[r.ver]>>

ToolRefs == {Ref("t", v) : v \in 1..MaxVer}
AllRefs == {Ref("a", 1), Ref("b", 1), Ref("c", 1)} \cup ToolRefs

(* ---------------- fnmatch --------------------------------------------- *)
RECURSIVE fnmatch(_, _)
\* fnmatch.fnmatch(name, pat) for patterns made of literals, "*" and "?"
fnmatch(s, p) ==
    IF p = <<>> THEN s = <<>>
    ELSE IF Head(p) = "*"
         THEN fnmatch(s, Tail(p)) \/ (s # <<>> /\ fnmatch(Tail(s), p))
    ELSE IF s = <<>> THEN FALSE
    ELSE (Head(p) = "?" \/ Head(p) = Head(s)) /\ fnmatch(Tail(s), Tail(p))

(* ---------------- _RecipeBuildRequires -------------------------------- *)
\* the ordered dict is a sequence of references with distinct names
HasName(d, n) == \E i \in 1..Len(d) : d[i].name = n

\* variant: the key is deleted and inserted again, so it moves to the end
SetItemMovesKey(d, r) ==
    Append(SelectSeq(d, LAMBDA x : x.name # r.name), r)

\* self[build_require.name] = build_require: an existing key keeps its place
SetItem(d, r) ==
    IF HasName(d, r.name)
    THEN [i \in 1..Len(d) |-> IF d[i].name = r.name THEN r ELSE d[i]]
    ELSE Append(d, r)

add(d, r) == SetItem(d, r)

RECURSIVE update(_, _)
update(d, rs) == IF rs = <<>> THEN d ELSE update(add(d, Head(rs)), Tail(rs))

\* _RecipeBuildRequires(conanfile): filled from the build_requires attribute
RecipeBuildRequiresInit(attr) == update(<<>>, attr)

\* conanfile.build_requirements() calls self.build_requires(ref) for each
\* reference of the callback, after the attribute was loaded
get_recipe_build_requires(recipe) ==
    update(RecipeBuildRequiresInit(recipe.build_requires), recipe.callback)

(* ---------------- recipes --------------------------------------------- *)
\* what the loader gives for a reference: declared requirements, the
\* build_requires attribute, and the references the build_requirements()
\* callback adds
Recipe(req, br, cb) == [requires |-> req, build_requires |-> br, callback |-> cb]

TopTool == Ref("t", MaxVer)

\* the recipe sets of the model: the application a/1, the library b/1, the
\* generator c/1 and the tools t/1 .. t/MaxVer (each built with the previous);
\* in the fifth set a/1 and b/1 declare the same two build requirements in
\* opposite orders, in the last set b/1 requires a/1 back (a cycle)
RecipeSets ==
    { [r \in AllRefs |->
          IF r = Ref("a", 1) THEN Recipe(<<Ref("b", 1)>>, aBR, aCB)
          ELSE IF r = Ref("b", 1) THEN Recipe(bReq, bBR, <<>>)
          ELSE IF r = Ref("c", 1) THEN Recipe(<<>>, <<>>, <<>>)
          ELSE IF r.ver = 1 THEN Recipe(<<Ref("c", 1)>>, <<>>, <<>>)
          ELSE Recipe(<<>>, <<Ref("t", r.ver - 1)>>, <<>>)]
      : <<aBR, aCB, bBR, bReq>> \in
          { <<(<<>>), (<<>>), (<<>>), (<<>>)>>,
            <<(<<TopTool>>), (<<>>), (<<Ref("c", 1)>>), (<<>>)>>,
            <<(<<Ref("t", 1), Ref("c", 1)>>), (<<TopTool>>), (<<>>), (<<>>)>>,
            <<(<<>>), (<<TopTool>>), (<<Ref("c", 1)>>), (<<>>)>>,
            <<(<<TopTool, Ref("c", 1)>>), (<<>>), (<<Ref("c", 1), TopTool>>), (<<>>)>>,
            <<(<<>>), (<<>>), (<<>>), (<<Ref("a", 1)>>)>> } }

(* ---------------- profile build-requires policy ----------------------- *)
Item(pat, reqs) == [pattern |-> pat, reqs |-> reqs]
\* profile_build_requires: None, or an ordered dict pattern -> references
NonePolicy == [isNone |-> TRUE, items |-> <<>>]
Policy(items) == [isNone |-> FALSE, items |-> items]
EmptyPolicy == Policy(<<>>)

AMP == <<"&">>
AMPNOT == <<"&", "!">>
STAR == <<"*">>

Policies ==
    { NonePolicy,
      Policy(<<Item(AMP, <<TopTool, Ref("c", 1)>>)>>),
      Policy(<<Item(AMPNOT, <<Ref("b", 1), Ref("c", 1)>>)>>),
      Policy(<<Item(STAR, <<TopTool>>)>>),
      Policy(<<Item(AMP, <<TopTool>>), Item(<<"t", "/", "*">>, <<Ref("c", 1)>>)>>),
      Policy(<<Item(AMPNOT, <<Ref("t", 1), Ref("c", 1)>>),
               Item(STAR, <<TopTool, Ref("c", 1)>>)>>),
      Policy(<<Item(<<"?", "/", "1">>, <<Ref("b", 1)>>)>>),
      Policy(<<Item(AMP, <<Ref("t", 1), Ref("b", 1)>>)>>) }

\* a pattern that names no package: it matches every node or every non-root
Blanket(p) == \E i \in 1..Len(p.items) : p.items[i].pattern \in {AMPNOT, STAR}

\* profile_build_requires or {}
OrEmpty(p) == IF p.isNone \/ p.items = <<>> THEN EmptyPolicy ELSE p

(* ---------------- graph (nodes and edges) ----------------------------- *)
RECIPE_CONSUMER == "Consumer"
RECIPE_VIRTUAL == "Virtual"
RECIPE_INCACHE == "Cache"
BINARY_BUILD == "Build"
BINARY_EDITABLE == "Editable"
BINARY_CACHE == "Cache"
BINARY_DOWNLOAD == "Download"
PACKAGE_ID_UNKNOWN == "Package_ID_unknown"
\* package_id of a node the analyzer has not seen yet
NoPackageId == "None"
NoBinary == "None"

\* Node(ref, conanfile, recipe): origin tells which call added the node
\* ("initial" build, a "recipe" extension or a "profile" extension), by the
\* node that call extended (0 for the initial build) and tainted whether
\* the call was a profile-only extension or was made below one
NewNode(ref, conanfile, kind, origin, tainted, by) ==
    [ref |-> ref, conanfile |-> conanfile, recipe |-> kind,
     binary |-> NoBinary, package_id |-> NoPackageId, public_closure |-> <<>>,
     origin |-> origin, tainted |-> tainted, by |-> by]

NodeName(n) == n.ref.name

RECURSIVE Reach(_, _)
\* the nodes that reach a node of set S along the edges (S included)
Reach(E, S) ==
    LET P == S \cup {e[1] : e \in {f \in E : f[2] \in S}}
    IN IF P = S THEN S ELSE Reach(E, P)

Ancestors(E, n) == Reach(E, {n}) \ {n}

\* variant: only the nodes of the initial build are looked up
FindRefInitialOnly(ns, r) ==
    IF \E i \in 1..Len(ns) : ns[i].ref = r /\ ns[i].origin = "initial"
    THEN CHOOSE i \in 1..Len(ns) : ns[i].ref = r /\ ns[i].origin = "initial"
    ELSE 0

\* the node of the graph with a given identity, 0 when there is none
FindRef(ns, r) ==
    IF \E i \in 1..Len(ns) : ns[i].ref = r
    THEN CHOOSE i \in 1..Len(ns) : ns[i].ref = r
    ELSE 0

\* closure[name] = node for every entry of another closure whose name is
\* not a key yet: the closure map is keyed by package name and keeps the
\* order in which its keys were first inserted
MergeClosure(ns, c, more) ==
    LET RECURSIVE F(_, _)
        F(acc, rest) ==
            IF rest = <<>> THEN acc
            ELSE IF \E k \in 1..Len(acc) : NodeName(ns[acc[k]]) = NodeName(ns[Head(rest)])
                 THEN F(acc, Tail(rest))
                 ELSE F(Append(acc, Head(rest)), Tail(rest))
    IN F(c, more)

\* a dependency q of node p enters the public closure of p and of the nodes
\* that require p, as far as the call reaches: the whole graph in the
\* initial build (by = 0); in an extension the nodes the call added (ids
\* above base) and the extended node by, because a build requirement is
\* not visible to the consumers of the node it builds
Propagate(ns, es, p, q, base, by) ==
    LET scope == {u \in {p} \cup Ancestors(es, p) : by = 0 \/ u = by \/ u > base}
    IN [i \in 1..Len(ns) |->
            IF i \in scope
            THEN [ns[i] EXCEPT !.public_closure =
                                   MergeClosure(ns, @, ns[q].public_closure)]
            ELSE ns[i]]

\* variant: no requirement is taken to lead back
LoopsNever(es, p, ex) == FALSE

\* the builder's cycle check: node ex is the requiring node p or one of the
\* nodes p is reached from
Loops(es, p, ex) == ex = p \/ ex \in Ancestors(es, p)

RECURSIVE Resolve(_, _, _, _, _, _)
\* the builder's resolution of a worklist of <<requiring node, reference>>:
\* an identity already in the graph is reused with a new edge, unless it is
\* the requiring node or one of its ancestors (failure); a new identity
\* gets a node and its recipe's own requirements are resolved next
Resolve(rcp, g, work, origin, tainted, by) ==
    IF work = <<>> \/ ~g.ok THEN g
    ELSE LET p == Head(work)[1]
             r == Head(work)[2]
             ex == FindRef(g.nodes, r)
             id == Len(g.nodes) + 1
             reqs == rcp[r].requires
         IN IF ex # 0
            THEN IF Loops(g.edges, p, ex)
                 THEN [g EXCEPT !.ok = FALSE]
                 ELSE Resolve(rcp,
                              [g EXCEPT !.nodes = Propagate(@, g.edges, p, ex, g.base, by),
                                        !.edges = @ \cup {<<p, ex>>}],
                              Tail(work), origin, tainted, by)
            ELSE Resolve(rcp,
                         [g EXCEPT !.nodes =
                                       Propagate(Append(@, [NewNode(r, rcp[r], RECIPE_INCACHE,
                                                                    origin, tainted, by)
                                                            EXCEPT !.public_closure = <<id>>]),
                                                 g.edges, p, id, g.base, by),
                                   !.edges = @ \cup {<<p, id>>}],
                         [i \in 1..Len(reqs) |-> <<id, reqs[i]>>] \o Tail(work),
                         origin, tainted, by)

\* builder.load_graph(root_node, ...)
BuilderLoadGraph(rcp, root) ==
    Resolve(rcp, [nodes |-> <<[root EXCEPT !.public_closure = <<1>>]>>, edges |-> {},
                  ok |-> TRUE, base |-> 0],
            [i \in 1..Len(root.conanfile.requires) |-> <<1, root.conanfile.requires[i]>>],
            "initial", FALSE, 0)

\* builder.extend_build_requires(graph, node, build_requires_refs, ...):
\* resolves the references at the node into the same graph
extend_build_requires(rcp, ns, es, at, refs, origin) ==
    Resolve(rcp, [nodes |-> ns, edges |-> es, ok |-> TRUE, base |-> Len(ns)],
            [i \in 1..Len(refs) |-> <<at, refs[i]>>],
            origin, ns[at].tainted \/ origin = "profile", at)

\* a set of node ids as a sequence in increasing order
SeqOfSet(S) ==
    LET RECURSIVE F(_)
        F(T) == IF T = {} THEN <<>>
                ELSE LET m == CHOOSE x \in T : \A y \in T : x <= y
                     IN <<m>> \o F(T \ {m})
    IN F(S)

RECURSIVE Levels(_, _)
\* graph.by_levels() flattened: repeatedly the nodes of S none of whose
\* dependencies is still open, each level in node order
Levels(E, S) ==
    IF S = {} THEN <<>>
    ELSE LET lvl == {n \in S : ~\E e \in E : e[1] = n /\ e[2] \in S}
         IN SeqOfSet(lvl) \o Levels(E, S \ lvl)

\* variant: the nodes in the order of their ids
ordered_iterate_by_id(E, S) == SeqOfSet(S)

\* subgraph.ordered_iterate()
ordered_iterate(E, S) == Levels(E, S)

(* ---------------- the resolution as a state machine ------------------- *)
VARIABLES
    recipes,     \* the recipes the loader serves (input)
    rootKind,    \* the request: a path "py" or "txt", a reference "ref" or a "list"
    revision,    \* reference.revision is not None (input)
    revisions_enabled, \* cache.config.revisions_enabled (input)
    profile,     \* profile.build_requires (input)
    apply,       \* apply_build_requires (input)
    nodes,       \* graph.nodes: sequence of nodes, the node id is the index
    edges,       \* dependency edges <<requiring node, required node>>
    stack,       \* the active calls of _recurse_build_requires
    pc,          \* "start", "init", "expand", "order", "done", "returned" or "failed"
    extendLog,   \* history: the extend_build_requires calls made
    evalLog,     \* history: the nodes the loop of line 229 went through
    analyzeLog,  \* history: the subgraphs handed to the binary analyzer
    graph_info0, \* the graph_info load_graph is called with (input)
    graph_info,  \* graph_info: its graph_lock, root and options
    root_node,   \* the root node load_graph has created (<<>> before)
    phases,      \* history: the steps of load_graph in the order they ran
    build_requires, \* a _RecipeBuildRequires container on its own
    added,       \* history: the references given to that container
    scm,         \* a working copy with an scm recipe and the cache (<<>>: none)
    deps         \* a conanfile, a build folder and load_deps_info (<<>>: none)

vars == <<recipes, rootKind, revision, revisions_enabled, profile, apply,
          nodes, edges, stack, pc,
          extendLog, evalLog, analyzeLog, graph_info0, graph_info, root_node,
          phases, build_requires, added, scm, deps>>

\* the container on its own takes no part in a resolution
container == <<build_requires, added>>

\* no recipe with an scm attribute takes part
NoScm == <<>>

\* load_deps_info is not called
NoDeps == <<>>

inputs == <<recipes, rootKind, revision, revisions_enabled, profile, apply,
            graph_info0, container, scm, deps>>

\* variant: the root of a reference or of a list is a Consumer too
RootNodeConsumer(rcp, kind, aTxt) ==
    IF kind = "py"
    THEN NewNode(Ref("a", 1), rcp[Ref("a", 1)], RECIPE_CONSUMER, "initial", FALSE, 0)
    ELSE IF kind = "txt"
    THEN NewNode(NoRef, aTxt, RECIPE_CONSUMER, "initial", FALSE, 0)
    ELSE IF kind = "ref"
    THEN NewNode(NoRef, Recipe(<<Ref("a", 1)>>, <<>>, <<>>), RECIPE_CONSUMER,
                 "initial", FALSE, 0)
    ELSE NewNode(NoRef, Recipe(<<Ref("a", 1), Ref("c", 1)>>, <<>>, <<>>),
                 RECIPE_CONSUMER, "initial", FALSE, 0)

\* the root node load_graph creates (lines 124-171): for the path of a
\* conanfile.py the Consumer node of the recipe's reference, for the path
\* of a conanfile.txt a Consumer node without reference, for a reference
\* and for a list of references a Virtual node without reference that
\* requires them
RootNode(rcp, kind, aTxt) ==
    IF kind = "py"
    THEN NewNode(Ref("a", 1), rcp[Ref("a", 1)], RECIPE_CONSUMER, "initial", FALSE, 0)
    ELSE IF kind = "txt"
    THEN NewNode(NoRef, aTxt, RECIPE_CONSUMER, "initial", FALSE, 0)
    ELSE IF kind = "ref"
    THEN NewNode(NoRef, Recipe(<<Ref("a", 1)>>, <<>>, <<>>), RECIPE_VIRTUAL,
                 "initial", FALSE, 0)
    ELSE NewNode(NoRef, Recipe(<<Ref("a", 1), Ref("c", 1)>>, <<>>, <<>>),
                 RECIPE_VIRTUAL, "initial", FALSE, 0)

\* a conanfile.txt has the requirements and build_requires of a/1, no callback
TxtRecipe(rcp) ==
    Recipe(rcp[Ref("a", 1)].requires, rcp[Ref("a", 1)].build_requires, <<>>)

\* what the binary analyzer may decide for a node
Outcomes ==
    { [binary |-> BINARY_BUILD, package_id |-> "id"],
      [binary |-> BINARY_CACHE, package_id |-> "id"],
      [binary |-> BINARY_EDITABLE, package_id |-> "id"],
      [binary |-> NoBinary, package_id |-> PACKAGE_ID_UNKNOWN] }

\* the decisions enumerated for a node: every decision for the library
\* b/1, editable or cached for a/1 when it is not the root, built or cached
\* for the root and the tools
OutcomesOf(node) ==
    IF node.recipe \in {RECIPE_CONSUMER, RECIPE_VIRTUAL}
    THEN {o \in Outcomes : o.binary \in {BINARY_BUILD, BINARY_CACHE}}
    ELSE IF node.ref.name = "b" THEN Outcomes
    ELSE IF node.ref.name = "a"
    THEN {o \in Outcomes : o.binary \in {BINARY_EDITABLE, BINARY_CACHE}}
    ELSE {o \in Outcomes : o.binary \in {BINARY_BUILD, BINARY_CACHE}}

\* variant: every call applies build-requires, whatever it was given
FrameApplies(sub, policy, kind, applyBR) ==
    [sub |-> sub, policy |-> policy, kind |-> kind, apply |-> TRUE,
     phase |-> "analyze", order |-> <<>>, idx |-> 1,
     package_build_requires |-> <<>>, new_profile_build_requires |-> <<>>,
     deps |-> {}, visited |-> <<>>]

\* one call of _recurse_build_requires: its subgraph, the policy it was
\* given, the loop's node order and position, and the two lists of the
\* node the loop is at; deps (the edges when the loop started) and visited
\* (the nodes the loop has been at) are history
Frame(sub, policy, kind, applyBR) ==
    [sub |-> sub, policy |-> policy, kind |-> kind, apply |-> applyBR,
     phase |-> "analyze", order |-> <<>>, idx |-> 1,
     package_build_requires |-> <<>>, new_profile_build_requires |-> <<>>,
     deps |-> {}, visited |-> <<>>]

\* graph_info.graph_lock is None
NoLock == <<>>

\* GraphLock(deps_graph): for every node id the reference of the node and
\* the references it requires (requirements and build requirements)
GraphLock(ns, es) ==
    [i \in 1..Len(ns) |->
        [ref |-> ns[i].ref,
         requires |-> {ns[e[2]].ref : e \in {f \in es : f[1] = i}}]]

\* variant: only the references of the nodes are compared
update_check_refs_only(ns, es, lock) ==
    \A i \in 1..Len(lock) : i <= Len(ns) => lock[i].ref = ns[i].ref

\* graph_lock.update_check_graph(deps_graph, output): no node id of the
\* lock is, in the graph, a node of another reference or of other
\* requirements than the lock recorded (else the call raises)
update_check_graph(ns, es, lock) ==
    \A i \in 1..Len(lock) : i <= Len(ns) => lock[i] = GraphLock(ns, es)[i]

\* the graph_info of a call: without a lock, or (for two of the profiles)
\* with the lock of an earlier resolution of the request that added no
\* build requirement
GraphInfos(rcp, kind, prof) ==
    LET g == BuilderLoadGraph(rcp, RootNode(rcp, kind, TxtRecipe(rcp)))
        locks == IF prof.isNone
                    \/ (Len(prof.items) = 1 /\ prof.items[1].pattern = AMPNOT)
                 THEN {NoLock, GraphLock(g.nodes, g.edges)}
                 ELSE {NoLock}
    IN {[graph_lock |-> l, root |-> NoRef, options |-> "stored"] : l \in locks}

Init ==
    /\ recipes \in RecipeSets
    /\ rootKind \in {"py", "txt", "ref", "list"}
    /\ profile \in Policies
    /\ revision \in BOOLEAN
    /\ revisions_enabled \in BOOLEAN
    /\ (revision \/ ~revisions_enabled) => (rootKind = "ref" /\ profile.isNone)
    /\ rootKind = "list" =>
          (profile.isNone \/ (Len(profile.items) = 1 /\ profile.items[1].pattern = STAR))
    /\ apply \in BOOLEAN
    /\ graph_info0 \in GraphInfos(recipes, rootKind, profile)
    /\ graph_info = graph_info0
    /\ root_node = <<>>
    /\ phases = <<>>
    /\ build_requires = <<>>
    /\ added = <<>>
    /\ scm = NoScm
    /\ deps = NoDeps
    /\ nodes = <<>>
    /\ edges = {}
    /\ stack = <<>>
    /\ pc = "start"
    /\ extendLog = <<>>
    /\ evalLog = <<>>
    /\ analyzeLog = <<>>

Top == stack[Len(stack)]

SetTop(stk, f) == [stk EXCEPT ![Len(stk)] = f]

Pop(stk) == SubSeq(stk, 1, Len(stk) - 1)

\* variant: the expansion starts whatever the initial build did
AfterInitialBuildAlways(ok) == "expand"

\* lines 281-284: an error raised by builder.load_graph leaves _load_graph
\* before _recurse_build_requires is called
AfterInitialBuild(ok) == IF ok THEN "expand" ELSE "failed"

\* variant: a reference with a revision is never refused
revision_accepted(kind, rev, enabled) == FALSE

\* lines 128-131: a reference with a revision, revisions not enabled
revision_refused(kind, rev, enabled) ==
    kind = "ref" /\ ~enabled /\ rev

\* load_graph, lines 119-174: the root node is created for the request,
\* and with a lock the root is looked up in it (not for a list, lines
\* 124-127); for a conanfile.py with a
\* lock and no root name in graph_info, line 148 sets graph_info.root from
\* the recipe's name and version
CreateRoot ==
    /\ pc = "start"
    /\ IF revision_refused(rootKind, revision, revisions_enabled)
       THEN /\ pc' = "failed"
            /\ UNCHANGED <<graph_info, phases, root_node>>
       ELSE /\ LET locked == graph_info.graph_lock # NoLock
               IN /\ graph_info' =
                        IF rootKind = "py" /\ locked /\ graph_info.root = NoRef
                        THEN [graph_info EXCEPT !.root = Ref("a", 1)]
                        ELSE graph_info
                  /\ phases' = phases \o <<"root">>
                                      \o (IF locked /\ rootKind # "list"
                                          THEN <<"lock_read">> ELSE <<>>)
            /\ root_node' = <<RootNode(recipes, rootKind, TxtRecipe(recipes))>>
            /\ pc' = "init"
    /\ UNCHANGED <<inputs, nodes, edges, stack, extendLog, evalLog, analyzeLog>>

\* _load_graph, lines 279-286: the initial build, then the first call of
\* _recurse_build_requires over the whole graph
LoadGraph ==
    /\ pc = "init"
    /\ LET g == BuilderLoadGraph(recipes, root_node[1])
       IN /\ nodes' = g.nodes
          /\ edges' = g.edges
          /\ pc' = AfterInitialBuild(g.ok)
          /\ stack' = IF AfterInitialBuild(g.ok) = "expand"
                      THEN <<Frame(1..Len(g.nodes), profile, "initial", apply)>>
                      ELSE <<>>
    /\ phases' = Append(phases, "build")
    /\ UNCHANGED <<inputs, extendLog, evalLog, analyzeLog, graph_info, root_node>>

\* a call that returns: back to its caller, or the expansion is done
Return(stk) == Pop(stk)

\* variant: when the first call has returned, _load_graph returns
PcAfterSkipsOrder(stk) == IF stk = <<>> THEN "done" ELSE "expand"

\* when the first call has returned, _load_graph goes on to line 288
PcAfter(stk) == IF stk = <<>> THEN "order" ELSE "expand"

\* variant: the analyzer is given nothing to decide
evaluate_graph_nothing(subgraph) == {}

\* line 225: the graph handed to the analyzer is the call's subgraph
evaluate_graph(subgraph) == subgraph

\* line 225-227: the analyzer decides every node of the subgraph, then the
\* call returns if build-requires are not applied, else the loop starts
Analyze ==
    /\ pc = "expand"
    /\ Top.phase = "analyze"
    /\ \E d \in {f \in [evaluate_graph(Top.sub) -> Outcomes] :
                     \A i \in evaluate_graph(Top.sub) : f[i] \in OutcomesOf(nodes[i])} :
          nodes' = [i \in 1..Len(nodes) |->
                       IF i \in evaluate_graph(Top.sub)
                       THEN [nodes[i] EXCEPT !.binary = d[i].binary,
                                             !.package_id = d[i].package_id]
                       ELSE nodes[i]]
    /\ IF ~Top.apply
       THEN /\ stack' = Return(stack)
            /\ pc' = PcAfter(Return(stack))
       ELSE /\ stack' = SetTop(stack, [Top EXCEPT !.phase = "iter",
                                                  !.order = ordered_iterate(edges, Top.sub),
                                                  !.deps = edges,
                                                  !.idx = 1])
            /\ pc' = pc
    /\ analyzeLog' = Append(analyzeLog, evaluate_graph(Top.sub))
    /\ phases' = Append(phases, "round")
    /\ UNCHANGED <<inputs, edges, extendLog, evalLog, graph_info, root_node>>

\* variant: no node is taken for a Virtual one
IsVirtualNever(node) == FALSE

\* line 232
IsVirtual(node) == node.recipe = RECIPE_VIRTUAL

\* variant: the unknown package id is not looked at
SkipNodeIgnoringUnknown(node) ==
    /\ node.binary \notin {BINARY_BUILD, BINARY_EDITABLE}
    /\ node.recipe # RECIPE_CONSUMER

\* lines 235-236
SkipNode(node) ==
    /\ node.binary \notin {BINARY_BUILD, BINARY_EDITABLE}
    /\ node.recipe # RECIPE_CONSUMER
    /\ node.package_id # PACKAGE_ID_UNKNOWN

\* variant: "&!" matches the Consumer root too
MatchesAmpNotAll(node, pattern) ==
    \/ (node.recipe = RECIPE_CONSUMER /\ pattern = AMP)
    \/ pattern = AMPNOT
    \/ fnmatch(StrRef(node.ref), pattern)

\* variant: "&" matches every node
MatchesAmpAll(node, pattern) ==
    \/ pattern = AMP
    \/ (node.recipe # RECIPE_CONSUMER /\ pattern = AMPNOT)
    \/ fnmatch(StrRef(node.ref), pattern)

\* lines 243-245
Matches(node, pattern) ==
    \/ (node.recipe = RECIPE_CONSUMER /\ pattern = AMP)
    \/ (node.recipe # RECIPE_CONSUMER /\ pattern = AMPNOT)
    \/ fnmatch(StrRef(node.ref), pattern)

\* variant: a name the profile-only list holds is not appended again
ApplyReqOncePerName(node, br, acc) ==
    IF HasName(acc.pbr, br.name)
    THEN [acc EXCEPT !.pbr = SetItem(acc.pbr, br), !.ovr = @ \cup {br.name}]
    ELSE IF br.name # NodeName(node) /\ ~HasName(acc.npbr, br.name)
    THEN [acc EXCEPT !.npbr = Append(@, br)]
    ELSE acc

\* variant: the node's own name is not checked
ApplyReqNoNameCheck(node, br, acc) ==
    IF HasName(acc.pbr, br.name)
    THEN [acc EXCEPT !.pbr = SetItem(acc.pbr, br), !.ovr = @ \cup {br.name}]
    ELSE [acc EXCEPT !.npbr = Append(@, br)]

\* lines 247-253 for one build_require of a matching pattern; acc holds
\* package_build_requires, new_profile_build_requires and (history) the
\* names the profile has overridden
ApplyReq(node, br, acc) ==
    IF HasName(acc.pbr, br.name)
    THEN [acc EXCEPT !.pbr = SetItem(acc.pbr, br), !.ovr = @ \cup {br.name}]
    ELSE IF br.name # NodeName(node)
    THEN [acc EXCEPT !.npbr = Append(@, br)]
    ELSE acc

RECURSIVE ApplyReqs(_, _, _)
\* line 246
ApplyReqs(node, brs, acc) ==
    IF brs = <<>> THEN acc
    ELSE ApplyReqs(node, Tail(brs), ApplyReq(node, Head(brs), acc))

RECURSIVE ApplyItems(_, _, _)
\* lines 242-253
ApplyItems(node, items, acc) ==
    IF items = <<>> THEN acc
    ELSE ApplyItems(node, Tail(items),
                    IF Matches(node, Head(items).pattern)
                    THEN ApplyReqs(node, Head(items).reqs, acc)
                    ELSE acc)

\* lines 238-253: the two requirement lists of a node under a policy
Overlay(node, policy) ==
    ApplyItems(node, OrEmpty(policy).items,
               [pbr |-> get_recipe_build_requires(node.conanfile),
                npbr |-> <<>>, ovr |-> {}])

\* variant: the profile-only extension is made first
NextPhaseProfileFirst(f, from) ==
    IF from = "iter" /\ f.new_profile_build_requires # <<>>
    THEN [f EXCEPT !.phase = "ext2"]
    ELSE IF from \in {"iter", "ext2"} /\ f.package_build_requires # <<>>
    THEN [f EXCEPT !.phase = "ext1"]
    ELSE [f EXCEPT !.phase = "iter", !.idx = @ + 1,
                   !.package_build_requires = <<>>,
                   !.new_profile_build_requires = <<>>]

\* where the loop goes after the node at idx: the first extension that has
\* something to extend with, else the next node
NextPhase(f, from) ==
    IF from = "iter" /\ f.package_build_requires # <<>>
    THEN [f EXCEPT !.phase = "ext1"]
    ELSE IF from \in {"iter", "ext1"} /\ f.new_profile_build_requires # <<>>
    THEN [f EXCEPT !.phase = "ext2"]
    ELSE [f EXCEPT !.phase = "iter", !.idx = @ + 1,
                   !.package_build_requires = <<>>,
                   !.new_profile_build_requires = <<>>]

\* lines 229-253 for the node the loop is at
Visit ==
    /\ pc = "expand"
    /\ Top.phase = "iter"
    /\ Top.idx <= Len(Top.order)
    /\ LET n == Top.order[Top.idx]
           node == nodes[n]
           o == Overlay(node, Top.policy)
           entry == [node |-> n, depth |-> Len(stack), policy |-> OrEmpty(Top.policy)]
       IN IF IsVirtual(node) \/ SkipNode(node)
          THEN /\ stack' = SetTop(stack, [Top EXCEPT !.idx = @ + 1,
                                                      !.visited = Append(@, n)])
               /\ evalLog' = Append(evalLog,
                      entry @@ [evaluated |-> FALSE, recipe_br |-> <<>>,
                                pbr |-> <<>>, npbr |-> <<>>, ovr |-> {}])
          ELSE /\ stack' = SetTop(stack,
                      NextPhase([Top EXCEPT !.policy = OrEmpty(Top.policy),
                                            !.visited = Append(@, n),
                                            !.package_build_requires = o.pbr,
                                            !.new_profile_build_requires = o.npbr],
                                "iter"))
               /\ evalLog' = Append(evalLog,
                      entry @@ [evaluated |-> TRUE,
                                recipe_br |-> get_recipe_build_requires(node.conanfile),
                                pbr |-> o.pbr, npbr |-> o.npbr, ovr |-> o.ovr])
    /\ UNCHANGED <<inputs, nodes, edges, pc, extendLog, analyzeLog, graph_info,
                   root_node, phases>>

\* variant: the recursion into a recipe-declared extension drops the policy
RecipeBranchEmptyPolicy(p) == EmptyPolicy

\* variant: the recursion into a profile-only extension keeps the policy
ProfileBranchSamePolicy(p) == p

\* the policy handed to the recursion into a recipe-declared extension (262)
RecipeBranchPolicy(p) == p

\* the policy handed to the recursion into a profile-only extension (271)
ProfileBranchPolicy(p) == EmptyPolicy

\* variant: the recursion is started on the whole graph
RecursionWholeGraph(new, whole) == whole

\* lines 256-260: the subgraph the recursion is started on is the one the
\* extension returned, not the whole graph
RecursionSubgraph(new, whole) == new

\* variant: the graph is left with the edges of the extension only
SubgraphEdges(old, extended) == extended \ old

\* lines 256 and 266: the extension works on the graph it is given, whose
\* edges after the call are the ones it had and the ones the call added
GraphEdges(old, extended) == extended

\* an extension at the loop's node and the recursive call on its result; an
\* extension that fails leaves what it added before the error and ends
\* the resolution
ExtendAndRecurse(kind, refs, policy) ==
    LET n == Top.order[Top.idx]
        g == extend_build_requires(recipes, nodes, edges, n, refs, kind)
        new == (Len(nodes) + 1)..Len(g.nodes)
    IN /\ extendLog' = Append(extendLog,
              [node |-> n, kind |-> kind, reqs |-> refs, policy |-> policy,
               depth |-> Len(stack), ok |-> g.ok, sub |-> new])
       /\ nodes' = g.nodes
       /\ edges' = GraphEdges(edges, g.edges)
       /\ IF g.ok
          THEN /\ stack' = Append(SetTop(stack, NextPhase(Top, Top.phase)),
                                  Frame(RecursionSubgraph(new, 1..Len(g.nodes)),
                                        policy, kind, TRUE))
               /\ pc' = pc
          ELSE /\ stack' = <<>>
               /\ pc' = "failed"

\* lines 255-263
ExtendPackage ==
    /\ pc = "expand"
    /\ Top.phase = "ext1"
    /\ ExtendAndRecurse("recipe", Top.package_build_requires,
                        RecipeBranchPolicy(Top.policy))
    /\ UNCHANGED <<inputs, evalLog, analyzeLog, graph_info, root_node, phases>>

\* lines 265-272
ExtendProfile ==
    /\ pc = "expand"
    /\ Top.phase = "ext2"
    /\ ExtendAndRecurse("profile", Top.new_profile_build_requires,
                        ProfileBranchPolicy(Top.policy))
    /\ UNCHANGED <<inputs, evalLog, analyzeLog, graph_info, root_node, phases>>

\* the loop of line 229 is over: the call returns
EndLoop ==
    /\ pc = "expand"
    /\ Top.phase = "iter"
    /\ Top.idx > Len(Top.order)
    /\ stack' = Return(stack)
    /\ pc' = PcAfter(Return(stack))
    /\ UNCHANGED <<inputs, nodes, edges, extendLog, evalLog, analyzeLog, graph_info,
                   root_node, phases>>

\* graph.inverse_levels(): repeatedly the nodes of S that no node still
\* open requires, so the root is in the first level
inverse_levels(E, S) ==
    LET RECURSIVE F(_)
        F(T) == IF T = {} THEN <<>>
                ELSE LET lvl == {n \in T : ~\E e \in E : e[2] = n /\ e[1] \in T}
                     IN <<lvl>> \o F(T \ lvl)
    IN F(S)

\* line 289: {n: i for i, level in enumerate(graph.inverse_levels()) for n in level}
InverseLevelIndex(E, S) ==
    LET lv == inverse_levels(E, S)
    IN [n \in S |-> (CHOOSE i \in 1..Len(lv) : n \in lv[i]) - 1]

\* variant: nothing is taken out of the closure
closure_pop_nothing(ns, closure, name) == closure

\* line 292, closure.pop(node.name): the closure without the entry whose
\* key is the name
closure_pop(ns, closure, name) ==
    SelectSeq(closure, LAMBDA m : NodeName(ns[m]) # name)

\* variant: the list is sorted by decreasing key
sort_descending(node_order, key) ==
    LET RECURSIVE Ins(_, _), F(_, _)
        Ins(acc, x) ==
            IF acc = <<>> THEN <<x>>
            ELSE IF key[acc[Len(acc)]] >= key[x] THEN Append(acc, x)
            ELSE Append(Ins(SubSeq(acc, 1, Len(acc) - 1), x), acc[Len(acc)])
        F(acc, rest) == IF rest = <<>> THEN acc
                        ELSE F(Ins(acc, Head(rest)), Tail(rest))
    IN F(<<>>, node_order)

\* variant: the list is left in the order of the closure
sort_nothing(node_order, key) == node_order

\* line 295, node_order.sort(key=...): a stable sort by increasing key; an
\* entry goes behind every entry whose key is not larger
sort(node_order, key) ==
    LET RECURSIVE Ins(_, _), F(_, _)
        Ins(acc, x) ==
            IF acc = <<>> THEN <<x>>
            ELSE IF key[acc[Len(acc)]] <= key[x] THEN Append(acc, x)
            ELSE Append(Ins(SubSeq(acc, 1, Len(acc) - 1), x), acc[Len(acc)])
        F(acc, rest) == IF rest = <<>> THEN acc
                        ELSE F(Ins(acc, Head(rest)), Tail(rest))
    IN F(<<>>, node_order)

\* lines 288-298: every node's closure map becomes the list of its
\* entries, the node's own taken out, sorted by inverse level; pop raises
\* KeyError when a closure has no entry under its node's name
OrderClosures ==
    /\ pc = "order"
    /\ LET levels == InverseLevelIndex(edges, 1..Len(nodes))
           hasOwn(n) == \E k \in 1..Len(nodes[n].public_closure) :
                            NodeName(nodes[nodes[n].public_closure[k]]) = NodeName(nodes[n])
       IN IF \A n \in 1..Len(nodes) : hasOwn(n)
          THEN /\ nodes' = [n \in 1..Len(nodes) |->
                               [nodes[n] EXCEPT !.public_closure =
                                   sort(closure_pop(nodes, @, NodeName(nodes[n])), levels)]]
               /\ pc' = "done"
          ELSE /\ nodes' = nodes
               /\ pc' = "failed"
    /\ phases' = Append(phases, "order")
    /\ UNCHANGED <<inputs, edges, stack, extendLog, evalLog, analyzeLog, graph_info,
                   root_node>>

\* root_node.conanfile.options.values
OptionsValues(node) == "root"

\* variant: a lock is made whether graph_info had one or not
SeedsLockAlways(lock) == TRUE

\* line 190: graph_info.graph_lock is None
SeedsLock(lock) == lock = NoLock

\* variant: a failed check leaves graph_info as it was before line 187
InfoWhenCheckFailsRestored(before, after) == before

\* lines 187-189 run before line 193: when update_check_graph raises,
\* graph_info has the options and the root already set
InfoWhenCheckFails(before, after) == after

\* load_graph, lines 187-193: the options and (for a root with a
\* reference) the root of graph_info are set, then the lock is made from
\* the graph if graph_info had none, else checked against the graph
UpdateGraphInfo ==
    /\ pc = "done"
    /\ LET ref == root_node[1].ref
           gi == [graph_info EXCEPT !.options = OptionsValues(root_node[1]),
                                    !.root = IF ref # NoRef THEN ref ELSE @]
       IN IF SeedsLock(graph_info.graph_lock)
          THEN /\ graph_info' = [gi EXCEPT !.graph_lock = GraphLock(nodes, edges)]
               /\ phases' = Append(phases, "seed")
               /\ pc' = "returned"
          ELSE /\ graph_info' = IF update_check_graph(nodes, edges, graph_info.graph_lock)
                               THEN gi ELSE InfoWhenCheckFails(graph_info, gi)
               /\ phases' = Append(phases, "check")
               /\ pc' = IF update_check_graph(nodes, edges, graph_info.graph_lock)
                        THEN "returned" ELSE "failed"
    /\ UNCHANGED <<inputs, nodes, edges, stack, extendLog, evalLog, analyzeLog,
                   root_node>>

\* the profiles for which a resolution with a lock is looked at
LockProfile(prof) ==
    \/ prof.isNone
    \/ Len(prof.items) = 1 /\ prof.items[1].pattern = AMPNOT

\* load_graph is called again for the same request with the graph_info the
\* first call left, which now holds the lock made from the first graph
ResolveAgain ==
    /\ pc = "returned"
    /\ graph_info0.graph_lock = NoLock
    /\ LockProfile(profile)
    /\ graph_info0' = graph_info
    /\ root_node' = <<>>
    /\ phases' = <<>>
    /\ nodes' = <<>>
    /\ edges' = {}
    /\ stack' = <<>>
    /\ pc' = "start"
    /\ extendLog' = <<>>
    /\ evalLog' = <<>>
    /\ analyzeLog' = <<>>
    /\ UNCHANGED <<recipes, rootKind, revision, revisions_enabled, profile, apply,
                   graph_info, container, scm, deps>>

Next ==
    \/ CreateRoot
    \/ LoadGraph
    \/ Analyze
    \/ Visit
    \/ ExtendPackage
    \/ ExtendProfile
    \/ EndLoop
    \/ OrderClosures
    \/ UpdateGraphInfo
    \/ ResolveAgain

Spec == Init /\ [][Next]_vars

(* ---------------- the container on its own ---------------------------- *)
\* the most references the container is given
MaxOps == 3

\* the build_requires attribute of a conanfile: a list of references, or
\* one reference that is not in a list (line 22-23 puts it in one)
Attrs == {<<>>} \cup {<<r>> : r \in AllRefs}

\* _RecipeBuildRequires(conanfile), lines 19-25
ContainerInit ==
    /\ \E attr \in Attrs :
          /\ build_requires = RecipeBuildRequiresInit(attr)
          /\ added = attr
    /\ scm = NoScm
    /\ deps = NoDeps
    /\ recipes = CHOOSE r \in RecipeSets : TRUE
    /\ rootKind = "ref"
    /\ revision = FALSE
    /\ revisions_enabled = TRUE
    /\ profile = NonePolicy
    /\ apply = FALSE
    /\ graph_info0 = [graph_lock |-> NoLock, root |-> NoRef, options |-> "stored"]
    /\ graph_info = graph_info0
    /\ root_node = <<>>
    /\ phases = <<>>
    /\ nodes = <<>>
    /\ edges = {}
    /\ stack = <<>>
    /\ pc = "start"
    /\ extendLog = <<>>
    /\ evalLog = <<>>
    /\ analyzeLog = <<>>

\* what no step of the container touches
resolution == <<recipes, rootKind, revision, revisions_enabled, profile, apply,
                graph_info0, graph_info,
                root_node, phases, nodes, edges, stack, pc, extendLog, evalLog,
                analyzeLog, scm, deps>>

\* add(build_require), lines 27-30
ContainerAdd ==
    /\ Len(added) < MaxOps
    /\ \E r \in AllRefs :
          /\ build_requires' = add(build_requires, r)
          /\ added' = Append(added, r)
    /\ UNCHANGED resolution

\* __call__(build_require), lines 32-33: self.build_requires(ref) in a
\* build_requirements() callback
ContainerCall ==
    /\ Len(added) < MaxOps
    /\ \E r \in ToolRefs :
          /\ build_requires' = add(build_requires, r)
          /\ added' = Append(added, r)
    /\ UNCHANGED resolution

\* update(build_requires), lines 35-37
ContainerUpdate ==
    /\ Len(added) + 2 <= MaxOps
    /\ \E r1, r2 \in AllRefs :
          /\ build_requires' = update(build_requires, <<r1, r2>>)
          /\ added' = added \o <<r1, r2>>
    /\ UNCHANGED resolution

ContainerNext ==
    \/ ContainerAdd
    \/ ContainerCall
    \/ ContainerUpdate

ContainerSpec == ContainerInit /\ [][ContainerNext]_vars

(* ---------------- a recipe with an scm attribute and the cache -------- *)
\* the most different contents the file of the working copy takes; a commit
\* is named by the contents it holds
MaxContents == 2

\* the "subfolder" values of the scm attribute
Subfolders == {"onesubfolder", "othersubfolder"}

\* scm_folder() of the cache: the pointer file's text ("": no such file)
NoPointer == ""

\* the working copy's folder
Curdir == "curdir"

\* source() of the cache holds nothing
NoSource == <<>>

\* nothing was exported
NoRecipe == <<>>

\* what the commands write
CannotDeduce == "Repo origin cannot be deduced"
FromFolder == "Getting sources from folder"
FromUrl == "Getting sources from url"

\* the scm attribute of a conanfile: url and revision are "auto" (revision
\* 0), or the url is a path and the revision a commit
ScmRecipe(auto, rev, sub) == [auto |-> auto, revision |-> rev, subfolder |-> sub]

\* a working copy with one commit and a conanfile, and an empty cache
ScmInit ==
    /\ \E o \in BOOLEAN, auto \in BOOLEAN, sub \in Subfolders :
          scm = [origin |-> o, folder |-> TRUE, work |-> 1, committed |-> 1,
                 conanfile |-> ScmRecipe(auto, IF auto THEN 0 ELSE 1, sub),
                 exported |-> NoRecipe, scm_folder |-> NoPointer,
                 source |-> NoSource, built |-> 0, out |-> "", failed |-> FALSE,
                 last |-> "", written |-> FALSE, before |-> NoSource]
    /\ build_requires = <<>>
    /\ added = <<>>
    /\ deps = NoDeps
    /\ recipes = CHOOSE r \in RecipeSets : TRUE
    /\ rootKind = "ref"
    /\ revision = FALSE
    /\ revisions_enabled = TRUE
    /\ profile = NonePolicy
    /\ apply = FALSE
    /\ graph_info0 = [graph_lock |-> NoLock, root |-> NoRef, options |-> "stored"]
    /\ graph_info = graph_info0
    /\ root_node = <<>>
    /\ phases = <<>>
    /\ nodes = <<>>
    /\ edges = {}
    /\ stack = <<>>
    /\ pc = "start"
    /\ extendLog = <<>>
    /\ evalLog = <<>>
    /\ analyzeLog = <<>>

\* what no command on the working copy or the cache touches
others == <<recipes, rootKind, revision, revisions_enabled, profile, apply,
            graph_info0, graph_info,
            root_node, phases, nodes, edges, stack, pc, extendLog, evalLog,
            analyzeLog, container, deps>>

\* the recipe as the cache holds it: "auto" is replaced by the commit of the
\* working copy
Exported(s) ==
    ScmRecipe(s.conanfile.auto,
              IF s.conanfile.auto THEN s.committed ELSE s.conanfile.revision,
              s.conanfile.subfolder)

\* variant: an export with an explicit url leaves the pointer file alone
PointerKept(rcp, ptr) ==
    IF rcp.auto THEN Curdir ELSE ptr

\* the pointer file after an export: written for "auto", absent otherwise
PointerAfterExport(rcp, ptr) ==
    IF rcp.auto THEN Curdir ELSE NoPointer

\* an export of a recipe that differs from the cache's removes the sources
SourceAfterExport(old, new, src) ==
    IF old # new THEN NoSource ELSE src

\* "export . user/channel"
export(s) ==
    IF s.conanfile.auto /\ ~s.origin
    THEN [s EXCEPT !.out = CannotDeduce, !.failed = TRUE]
    ELSE [s EXCEPT !.exported = Exported(s),
                   !.scm_folder = PointerAfterExport(s.conanfile, s.scm_folder),
                   !.source = SourceAfterExport(s.exported, Exported(s), s.source),
                   !.written = @ \/ s.conanfile.auto,
                   !.out = "", !.failed = FALSE]

\* variant: the pointer file alone decides, its folder may be gone
local_sources_by_pointer(ptr, fld) ==
    ptr # NoPointer

\* the sources are taken from the working copy
local_sources(ptr, fld) ==
    ptr # NoPointer /\ fld

\* variant: the sources in the cache are never removed before a build
SourceKept(ptr, fld, src) ==
    src

\* "Detected 'scm' auto in conanfile, trying to remove source folder"
SourceBeforeRetrieve(ptr, fld, src) ==
    IF local_sources(ptr, fld) THEN NoSource ELSE src

\* "install lib/0.1@user/channel --build": the states it can leave; the url
\* may not hold the commit, and then the command fails
install(s) ==
    LET src == SourceBeforeRetrieve(s.scm_folder, s.folder, s.source)
    IN IF src # NoSource
       THEN {[s EXCEPT !.source = src, !.built = src.contents,
                       !.out = "", !.failed = FALSE]}
       ELSE IF local_sources(s.scm_folder, s.folder)
       THEN {[s EXCEPT !.source = [from |-> "folder", contents |-> s.work,
                                   subfolder |-> s.exported.subfolder],
                       !.built = s.work, !.out = FromFolder, !.failed = FALSE]}
       ELSE {[s EXCEPT !.source = [from |-> "url", contents |-> s.exported.revision,
                                   subfolder |-> s.exported.subfolder],
                       !.built = s.exported.revision, !.out = FromUrl,
                       !.failed = FALSE],
             [s EXCEPT !.source = NoSource, !.built = 0, !.out = FromUrl,
                       !.failed = TRUE]}

\* one command, named in scm.last
ScmStep(s, name) ==
    /\ scm' = [s EXCEPT !.last = name]
    /\ UNCHANGED others

Quiet(s) == [s EXCEPT !.out = "", !.failed = FALSE]

\* git remote add origin
GitRemoteAdd ==
    /\ scm.folder
    /\ ~scm.origin
    /\ ScmStep([Quiet(scm) EXCEPT !.origin = TRUE], "remote")

\* client.save of a file of the working copy, not committed
SaveFile ==
    /\ scm.folder
    /\ \E c \in (1..MaxContents) \ {scm.work} :
          ScmStep([Quiet(scm) EXCEPT !.work = c], "save")

\* create_local_git_repo(folder=current_folder): the contents are committed
Commit ==
    /\ scm.folder
    /\ scm.work # scm.committed
    /\ ScmStep([Quiet(scm) EXCEPT !.committed = scm.work], "commit")

\* client.save of another conanfile.py; an explicit revision is
\* git.get_revision()
SaveConanfile ==
    /\ scm.folder
    /\ \E auto \in BOOLEAN, sub \in Subfolders :
          LET c == ScmRecipe(auto, IF auto THEN 0 ELSE scm.committed, sub)
          IN /\ c # scm.conanfile
             /\ ScmStep([Quiet(scm) EXCEPT !.conanfile = c], "conanfile")

\* client.run("export . user/channel")
ScmExport ==
    /\ scm.folder
    /\ ScmStep(export(scm), "export")

\* client.run("create . user/channel"): the export, then the build
ScmCreate ==
    /\ scm.folder
    /\ LET e == [export(scm) EXCEPT !.before = scm.source]
       IN IF e.failed
          THEN ScmStep(e, "create")
          ELSE \E n \in install(e) : ScmStep(n, "create")

\* client.run("install lib/0.1@user/channel --build")
ScmInstall ==
    /\ scm.exported # NoRecipe
    /\ \E n \in install(scm) : ScmStep(n, "install")

\* os.remove(scm_folder())
RemovePointer ==
    /\ scm.scm_folder # NoPointer
    /\ ScmStep([Quiet(scm) EXCEPT !.scm_folder = NoPointer], "remove")

\* rmdir(curdir)
Rmdir ==
    /\ scm.folder
    /\ ScmStep([Quiet(scm) EXCEPT !.folder = FALSE], "rmdir")

ScmNext ==
    \/ GitRemoteAdd
    \/ SaveFile
    \/ Commit
    \/ SaveConanfile
    \/ ScmExport
    \/ ScmCreate
    \/ ScmInstall
    \/ RemovePointer
    \/ Rmdir

ScmSpec == ScmInit /\ [][ScmNext]_vars

(* ---------------- the "submodule" value of the scm attribute ---------- *)
\* the most levels of nested submodules the repository of the url holds
MaxDepth == 3

\* the "submodule" values of a conanfile ("": the attribute has none)
SubmoduleValues == {"", "shallow", "recursive", "invalid"}

InvalidSubmodule == "Invalid 'submodule' attribute value in the 'scm'."

\* variant: "shallow" fetches the nested submodules too
checkout_all_levels(mode, depth) ==
    [levels |-> IF mode = "" THEN {0} ELSE 0..depth]

\* the levels whose content a checkout leaves in the source folder: 0 is the
\* repository's own file, 1 its submodule, 2 the submodule of that one
checkout(mode, depth) ==
    [levels |-> IF mode = "recursive" THEN 0..depth
                ELSE IF mode = "shallow" THEN {l \in 0..depth : l <= 1}
                ELSE {0}]

\* a repository with nested submodules, a conanfile naming it, an empty cache
SubmoduleInit ==
    /\ \E d \in 0..MaxDepth, m \in SubmoduleValues :
          scm = [depth |-> d, conanfile |-> m, exported |-> NoRecipe,
                 source |-> NoSource, out |-> "", failed |-> FALSE, last |-> ""]
    /\ build_requires = <<>>
    /\ added = <<>>
    /\ deps = NoDeps
    /\ recipes = CHOOSE r \in RecipeSets : TRUE
    /\ rootKind = "ref"
    /\ revision = FALSE
    /\ revisions_enabled = TRUE
    /\ profile = NonePolicy
    /\ apply = FALSE
    /\ graph_info0 = [graph_lock |-> NoLock, root |-> NoRef, options |-> "stored"]
    /\ graph_info = graph_info0
    /\ root_node = <<>>
    /\ phases = <<>>
    /\ nodes = <<>>
    /\ edges = {}
    /\ stack = <<>>
    /\ pc = "start"
    /\ extendLog = <<>>
    /\ evalLog = <<>>
    /\ analyzeLog = <<>>

\* client.save of a conanfile.py with another "submodule" value
SubmoduleSave ==
    \E m \in SubmoduleValues \ {scm.conanfile} :
        ScmStep([scm EXCEPT !.conanfile = m, !.out = "", !.failed = FALSE], "conanfile")

\* "create . user/channel": with a value that is not one of the modes it
\* fails, before or after the recipe reached the cache; otherwise the changed
\* recipe removes the sources and the url is checked out
create_submodule(s) ==
    IF s.conanfile \notin {"", "shallow", "recursive"}
    THEN {[s EXCEPT !.out = InvalidSubmodule, !.failed = TRUE],
          [s EXCEPT !.out = InvalidSubmodule, !.failed = TRUE,
                    !.exported = [submodule |-> s.conanfile],
                    !.source = SourceAfterExport(s.exported,
                                                 [submodule |-> s.conanfile],
                                                 s.source)]}
    ELSE LET src == SourceAfterExport(s.exported, [submodule |-> s.conanfile],
                                      s.source)
         IN {[s EXCEPT !.exported = [submodule |-> s.conanfile],
                       !.source = IF src # NoSource THEN src
                                  ELSE checkout(s.conanfile, s.depth),
                       !.out = FromUrl, !.failed = FALSE]}

SubmoduleCreate ==
    \E n \in create_submodule(scm) : ScmStep(n, "create")

SubmoduleNext ==
    \/ SubmoduleSave
    \/ SubmoduleCreate

SubmoduleSpec == SubmoduleInit /\ [][SubmoduleNext]_vars

(* ---------------- load_deps_info --------------------------------------- *)
\* the most different contents the build-info file takes
MaxInfo == 2

\* the three deps attributes of a conanfile
DepsFields == {"deps_cpp_info", "deps_user_info", "deps_env_info"}

\* a conanfile attribute that was never set
Unset(field) == [kind |-> "unset", name |-> field, val |-> 0]

\* get_forbidden_access_object(field_name), lines 303-310
get_forbidden_access_object(field_name) ==
    [kind |-> "forbidden", name |-> field_name, val |-> 0]

\* what TXTGenerator.loads gives for a field from a file of contents c
Loaded(field, c) == [kind |-> "info", name |-> field, val |-> c]

\* the build-info file of the folder: missing, not parsable, or of contents c
InfoFiles ==
    {[state |-> "missing", info |-> 0], [state |-> "garbage", info |-> 0]}
    \cup {[state |-> "ok", info |-> c] : c \in 1..MaxInfo}

NotFound == "conanbuildinfo.txt file not found"
ParseError == "Parse error in 'conanbuildinfo.txt' file"
NotDefined == "not defined. If you need it for a local command run 'conan install'"

\* variant: a missing file never raises
load_deps_info_never_required(current_path, conanfile, required, file) ==
    IF current_path = ""
    THEN [conanfile |-> conanfile, raised |-> ""]
    ELSE IF file.state = "ok"
    THEN [conanfile |-> [f \in DepsFields |-> Loaded(f, file.info)], raised |-> ""]
    ELSE IF file.state = "missing"
    THEN [conanfile |->
             [conanfile EXCEPT
                 !["deps_cpp_info"] = get_forbidden_access_object("deps_cpp_info"),
                 !["deps_user_info"] = get_forbidden_access_object("deps_user_info")],
          raised |-> ""]
    ELSE [conanfile |-> conanfile, raised |-> ParseError]

\* load_deps_info(current_path, conanfile, required), lines 301-328: the
\* conanfile after the call and the error raised ("": none)
load_deps_info(current_path, conanfile, required, file) ==
    IF current_path = ""
    THEN [conanfile |-> conanfile, raised |-> ""]
    ELSE IF file.state = "ok"
    THEN [conanfile |-> [f \in DepsFields |-> Loaded(f, file.info)], raised |-> ""]
    ELSE IF file.state = "missing"
    THEN IF required
         THEN [conanfile |-> conanfile, raised |-> NotFound]
         ELSE [conanfile |->
                  [conanfile EXCEPT
                      !["deps_cpp_info"] = get_forbidden_access_object("deps_cpp_info"),
                      !["deps_user_info"] = get_forbidden_access_object("deps_user_info")],
               raised |-> ""]
    ELSE [conanfile |-> conanfile, raised |-> ParseError]

\* conanfile.<field>[item] or conanfile.<field>.<attr>: what it raises
Access(value) ==
    IF value.kind = "forbidden" THEN NotDefined
    ELSE IF value.kind = "unset" THEN "AttributeError"
    ELSE ""

\* a conanfile without deps attributes and a folder
DepsInit ==
    /\ \E file \in InfoFiles :
          deps = [file |-> file, conanfile |-> [f \in DepsFields |-> Unset(f)],
                  before |-> [f \in DepsFields |-> Unset(f)],
                  current_path |-> "", required |-> FALSE, was |-> file,
                  raised |-> "", last |-> "", field |-> ""]
    /\ build_requires = <<>>
    /\ added = <<>>
    /\ scm = NoScm
    /\ recipes = CHOOSE r \in RecipeSets : TRUE
    /\ rootKind = "ref"
    /\ revision = FALSE
    /\ revisions_enabled = TRUE
    /\ profile = NonePolicy
    /\ apply = FALSE
    /\ graph_info0 = [graph_lock |-> NoLock, root |-> NoRef, options |-> "stored"]
    /\ graph_info = graph_info0
    /\ root_node = <<>>
    /\ phases = <<>>
    /\ nodes = <<>>
    /\ edges = {}
    /\ stack = <<>>
    /\ pc = "start"
    /\ extendLog = <<>>
    /\ evalLog = <<>>
    /\ analyzeLog = <<>>

\* what no step on the folder or the conanfile touches
untouched == <<recipes, rootKind, revision, revisions_enabled, profile, apply,
               graph_info0, graph_info, root_node, phases, nodes, edges, stack,
               pc, extendLog, evalLog, analyzeLog, container, scm>>

\* a call of load_deps_info; before, current_path, required and was record
\* the conanfile, the arguments and the file of the call
LoadDepsInfo ==
    /\ \E path \in {"", "build"}, required \in BOOLEAN :
          LET r == load_deps_info(path, deps.conanfile, required, deps.file)
          IN deps' = [deps EXCEPT !.conanfile = r.conanfile, !.raised = r.raised,
                                  !.before = deps.conanfile, !.was = deps.file,
                                  !.current_path = path, !.required = required,
                                  !.last = "load", !.field = ""]
    /\ UNCHANGED untouched

\* the recipe reads one of its deps attributes
AccessField ==
    /\ \E f \in DepsFields :
          deps' = [deps EXCEPT !.raised = Access(deps.conanfile[f]),
                               !.last = "access", !.field = f]
    /\ UNCHANGED untouched

\* "conan install" writes the file, or the file is removed or damaged
ChangeFile ==
    /\ \E file \in InfoFiles \ {deps.file} :
          deps' = [deps EXCEPT !.file = file, !.raised = "",
                               !.last = "file", !.field = ""]
    /\ UNCHANGED untouched

DepsNext ==
    \/ LoadDepsInfo
    \/ AccessField
    \/ ChangeFile

DepsSpec == DepsInit /\ [][DepsNext]_vars

Terminated == pc \in {"done", "returned", "failed"}

(* ---------------- properties ------------------------------------------ *)
Extends == {extendLog[i] : i \in 1..Len(extendLog)}
Evals == {evalLog[i] : i \in 1..Len(evalLog)}
Evaluated == {e \in Evals : e.evaluated}

\* the number of packages a graph can hold, the root included
MaxNodes == Cardinality(AllRefs) + 1

\* the calls of _recurse_build_requires started so far
Calls == IF pc \in {"start", "init"} THEN 0 ELSE Len(extendLog) + 1

\* a bound on the steps of one call of load_graph
RunSteps == 9 * MaxNodes + 4

\* the steps taken so far: the calls started, the analyzer runs, the nodes
\* the loops went through, the extend calls, the calls that ended and the
\* steps of load_graph
Progress ==
    Calls
    + (Calls - Cardinality({k \in 1..Len(stack) : stack[k].phase = "analyze"}))
    + Len(evalLog) + Len(extendLog)
    + (Calls - Len(stack))
    + Len(phases)
    + (IF graph_info0.graph_lock # NoLock THEN RunSteps ELSE 0)

\* the control state of a resolution that has a next step: the initial
\* build is to be made, or the innermost call is at one of its steps
CanStep ==
    \/ pc \in {"start", "init", "order"}
    \/ /\ pc = "expand"
       /\ stack # <<>>
       /\ Top.phase \in {"analyze", "iter", "ext1", "ext2"}
       /\ Top.phase \in {"ext1", "ext2"} => Top.idx <= Len(Top.order)
       /\ Top.phase = "ext1" => Top.package_build_requires # <<>>
       /\ Top.phase = "ext2" => Top.new_profile_build_requires # <<>>

\* C1: the expansion ends after finitely many extend calls: every node is
\* extended at most once with its recipe list and at most once with its
\* profile-only list, the graph never holds more nodes than there are
\* packages (plus the root), every step of the expansion adds to a count
\* of steps that is bounded by the number of packages, and as long as the
\* first call has not ended (returned or raised) there is a step to take
C1_ExpansionTerminates ==
    /\ [](/\ \A i, j \in 1..Len(extendLog) :
               (extendLog[i].node = extendLog[j].node
                /\ extendLog[i].kind = extendLog[j].kind) => i = j
          /\ Len(nodes) <= MaxNodes
          /\ Progress <= 2 * RunSteps
          /\ (Terminated \/ CanStep))
    /\ [][Progress' > Progress]_vars

C1_Witness ==
    /\ pc = "done"
    /\ Blanket(profile)
    /\ Len(extendLog) >= 3
    /\ \E x \in Extends : x.kind = "profile" /\ x.depth >= 2

\* C2 as stated: no list passed to extend at a node, recipe-declared or
\* profile-only, names the node's own package
C2_NoSelfRequire_Original ==
    \A x \in Extends : \A i \in 1..Len(x.reqs) :
        x.reqs[i].name # NodeName(nodes[x.node])

\* C2 (amended): no profile-only list passed to extend at a node names the
\* node's own package
C2_NoSelfRequireProfileOnly ==
    \A x \in Extends : x.kind = "profile" =>
        \A i \in 1..Len(x.reqs) : x.reqs[i].name # NodeName(nodes[x.node])

\* a profile-only extension at a node one of whose matching patterns
\* declares the node's own package
C2_Witness ==
    \E x \in Extends :
        /\ x.kind = "profile"
        /\ x.ok
        /\ \E e \in Evaluated :
              /\ e.node = x.node
              /\ \E i \in 1..Len(e.policy.items) :
                    /\ Matches(nodes[x.node], e.policy.items[i].pattern)
                    /\ HasName(e.policy.items[i].reqs, NodeName(nodes[x.node]))

RECURSIVE MatchingReqs(_, _)
\* the requirements of the patterns that match a node, in policy order
MatchingReqs(node, items) ==
    IF items = <<>> THEN <<>>
    ELSE (IF Matches(node, Head(items).pattern) THEN Head(items).reqs ELSE <<>>)
         \o MatchingReqs(node, Tail(items))

\* the last entry of a sequence of references with a given name
LastNamed(rs, n) ==
    rs[CHOOSE i \in 1..Len(rs) :
          rs[i].name = n /\ \A j \in (i + 1)..Len(rs) : rs[j].name # n]

\* C3: the recipe list passed to extend has the names of the recipe's own
\* build-requirements at their positions, each holding the reference of
\* the (last) matching profile requirement of that name when there is one,
\* and the recipe's reference otherwise
C3_ProfileOverride ==
    /\ \A e \in Evaluated :
          LET m == MatchingReqs(nodes[e.node], e.policy.items)
          IN /\ Len(e.pbr) = Len(e.recipe_br)
             /\ \A i \in 1..Len(e.pbr) :
                   /\ e.pbr[i].name = e.recipe_br[i].name
                   /\ e.pbr[i] = IF HasName(m, e.recipe_br[i].name)
                                 THEN LastNamed(m, e.recipe_br[i].name)
                                 ELSE e.recipe_br[i]
             /\ \A i, j \in 1..Len(e.pbr) : e.pbr[i].name = e.pbr[j].name => i = j
    /\ \A x \in Extends : x.kind = "recipe" =>
          \E e \in Evaluated : e.node = x.node /\ x.reqs = e.pbr

\* an extension with a list in which the profile replaced the recipe's
\* reference at a position other than the last
C3_Witness ==
    \E x \in Extends : \E e \in Evaluated :
        /\ x.kind = "recipe" /\ x.ok /\ e.node = x.node
        /\ Len(e.pbr) >= 2
        /\ e.pbr[1] # e.recipe_br[1]
        /\ e.pbr[1].name \in e.ovr

\* C4: a node added by a profile-only extension, or beneath one, is matched
\* against the empty policy and extended with exactly its recipe's own
\* build-requirements
C4_EmptyPolicyUnderProfileOnly ==
    /\ \A e \in Evaluated : nodes[e.node].tainted =>
          /\ e.policy = EmptyPolicy
          /\ e.pbr = get_recipe_build_requires(nodes[e.node].conanfile)
          /\ e.npbr = <<>>
    /\ \A x \in Extends : nodes[x.node].tainted =>
          /\ x.kind = "recipe"
          /\ x.reqs = get_recipe_build_requires(nodes[x.node].conanfile)
          /\ x.policy = EmptyPolicy

\* a node added by a profile-only extension is extended with its recipe's
\* list although the profile would have changed that list
C4_Witness ==
    \E x \in Extends :
        /\ nodes[x.node].tainted
        /\ x.ok
        /\ Overlay(nodes[x.node], profile).pbr # x.reqs

\* the evaluation of the node whose extension added node n
ParentEval(n) == {e \in Evaluated : e.node = nodes[n].by}

\* C5: a node added by a recipe-declared extension is matched against the
\* policy its parent was matched against, and gets the overrides and the
\* profile-only requirements of that policy
C5_SamePolicyUnderRecipe ==
    /\ \A e \in Evaluated : nodes[e.node].origin = "recipe" =>
          /\ ParentEval(e.node) # {}
          /\ \A pe \in ParentEval(e.node) :
                /\ e.policy = pe.policy
                /\ e.pbr = Overlay(nodes[e.node], pe.policy).pbr
                /\ e.npbr = Overlay(nodes[e.node], pe.policy).npbr
    /\ \A k \in 2..Len(stack) :
          stack[k].kind = "recipe" => OrEmpty(stack[k].policy) = stack[k - 1].policy

\* a node added by a recipe-declared extension gets a profile-only
\* requirement from a policy that is not empty
C5_Witness ==
    \E e \in Evaluated :
        /\ nodes[e.node].origin = "recipe"
        /\ e.policy # EmptyPolicy
        /\ e.npbr # <<>>
        /\ \E x \in Extends : x.node = e.node /\ x.kind = "profile" /\ x.ok

Range(q) == {q[i] : i \in 1..Len(q)}

Max(S) == CHOOSE x \in S : \A y \in S : y <= x

\* the references a policy can put in place of a recipe's build-requirement
PolicyRefs(p) == UNION {Range(p.items[i].reqs) : i \in 1..Len(p.items)}

\* one hop of a build-requirement chain: a build-requirement the recipe of r
\* declares, in the version the recipe names or in a version the policy
\* gives for that name
Hops(r) ==
    LET d == Range(get_recipe_build_requires(recipes[r]))
    IN d \cup {q \in PolicyRefs(profile) : \E x \in d : x.name = q.name}

RECURSIVE Chain(_, _)
\* the most build-requirement hops on a path from r that repeats no package
Chain(r, seen) ==
    Max({0}
        \cup {Chain(q, seen \cup {q}) : q \in Range(recipes[r].requires) \ seen}
        \cup {1 + Chain(q, seen \cup {q}) : q \in Hops(r) \ seen})

LongestChain == Max({Chain(r, {r}) : r \in AllRefs})

\* C6: the number of nested calls is at most the first call, one call for
\* a policy-introduced requirement and one call per hop of the longest
\* chain of recipe-declared build-requirements; at most one of the nested
\* calls was opened by a profile-only extension, and no profile-only
\* extension is made at a node that a profile-only extension added
C6_DepthBounded ==
    /\ Len(stack) <= LongestChain + 2
    /\ Cardinality({k \in 1..Len(stack) : stack[k].kind = "profile"}) <= 1
    /\ \A x \in Extends : x.kind = "profile" => nodes[x.node].origin # "profile"

\* under a blanket policy the calls are nested as deep as the bound allows,
\* below a profile-only extension
C6_Witness ==
    /\ Blanket(profile)
    /\ Len(stack) = LongestChain + 2
    /\ \E k \in 1..Len(stack) : stack[k].kind = "profile"
    /\ \E e \in Evaluated : nodes[e.node].origin = "profile"

\* lines 235-236 as the claim states them: the node needs its
\* build-requirements evaluated
NeedsBuildRequires(node) ==
    \/ node.binary \in {BINARY_BUILD, BINARY_EDITABLE}
    \/ node.recipe = RECIPE_CONSUMER
    \/ node.package_id = PACKAGE_ID_UNKNOWN

\* C7: a non-Virtual node the loop went through was evaluated if and only
\* if it is to be built, is editable, is the Consumer root or has the
\* unknown package id; a node that was not evaluated is never extended
C7_SkipRule ==
    /\ \A e \in Evals : nodes[e.node].recipe # RECIPE_VIRTUAL =>
          (e.evaluated <=> NeedsBuildRequires(nodes[e.node]))
    /\ \A x \in Extends : \E e \in Evaluated : e.node = x.node

\* a finished expansion that skipped a cached node and evaluated a node
\* only because its package id is unknown, and one because it is editable
C7_Witness ==
    /\ pc = "done"
    /\ \E e \in Evals : ~e.evaluated /\ nodes[e.node].recipe # RECIPE_VIRTUAL
    /\ \E e \in Evaluated :
          /\ nodes[e.node].package_id = PACKAGE_ID_UNKNOWN
          /\ nodes[e.node].recipe # RECIPE_CONSUMER
          /\ \E x \in Extends : x.node = e.node
    /\ \E i \in 1..Len(nodes) : nodes[i].binary = BINARY_EDITABLE
          /\ \E e \in Evaluated : e.node = i

\* C8: a Virtual node is never evaluated and never extended
C8_VirtualNeverExpanded ==
    /\ \A e \in Evals : nodes[e.node].recipe = RECIPE_VIRTUAL => ~e.evaluated
    /\ \A x \in Extends : nodes[x.node].recipe # RECIPE_VIRTUAL

\* the loop went through a Virtual root that is to be built, under a policy
\* with the patterns "&!" and "*"
C8_Witness ==
    /\ \E i \in 1..Len(profile.items) : profile.items[i].pattern = AMPNOT
    /\ \E i \in 1..Len(profile.items) : profile.items[i].pattern = STAR
    /\ \E e \in Evals :
          /\ nodes[e.node].recipe = RECIPE_VIRTUAL
          /\ nodes[e.node].binary = BINARY_BUILD
    /\ pc = "done"

\* the patterns of the model's policies
Patterns == UNION {{p.items[i].pattern : i \in 1..Len(p.items)} : p \in Policies}

\* C9: for every node of the graph and every pattern, the node matches "&"
\* iff it is the Consumer root, "&!" iff it is not, and any other pattern
\* iff its printed reference matches the pattern as a glob
C9_PatternMatching ==
    \A i \in 1..Len(nodes) : \A pat \in Patterns :
        Matches(nodes[i], pat) <=>
            IF pat = AMP THEN nodes[i].recipe = RECIPE_CONSUMER
            ELSE IF pat = AMPNOT THEN nodes[i].recipe # RECIPE_CONSUMER
            ELSE fnmatch(StrRef(nodes[i].ref), pat)

\* nodes were evaluated under a policy with a special and a glob pattern:
\* the Consumer root and a node the glob matches, one that it does not
C9_Witness ==
    /\ \E e \in Evaluated : nodes[e.node].recipe = RECIPE_CONSUMER
          /\ \E k \in 1..Len(e.policy.items) : e.policy.items[k].pattern = AMP
    /\ \E e \in Evaluated : \E k \in 1..Len(e.policy.items) :
          /\ e.policy.items[k].pattern \notin {AMP, AMPNOT, STAR}
          /\ Matches(nodes[e.node], e.policy.items[k].pattern)
          /\ nodes[e.node].recipe # RECIPE_CONSUMER
    /\ \E e \in Evaluated : \E k \in 1..Len(e.policy.items) :
          ~Matches(nodes[e.node], e.policy.items[k].pattern)

OnlyAmp(p) ==
    /\ p.items # <<>>
    /\ \A i \in 1..Len(p.items) : p.items[i].pattern = AMP

\* C10: under a policy whose only pattern is "&", a node other than the
\* Consumer root gets no override and no profile-only requirement: it is
\* extended with its recipe's own build-requirements only
C10_AmpOnlyRoot ==
    OnlyAmp(profile) =>
        /\ \A e \in Evaluated : nodes[e.node].recipe # RECIPE_CONSUMER =>
              e.ovr = {} /\ e.npbr = <<>>
        /\ \A x \in Extends : nodes[x.node].recipe # RECIPE_CONSUMER =>
              /\ x.kind = "recipe"
              /\ x.reqs = get_recipe_build_requires(nodes[x.node].conanfile)

\* a finished expansion under an "&"-only policy in which the root got an
\* override and a profile-only requirement, and a node added for the
\* root's build-requirements was evaluated under the same policy
C10_Witness ==
    /\ OnlyAmp(profile)
    /\ pc = "done"
    /\ \E e \in Evaluated : nodes[e.node].recipe = RECIPE_CONSUMER
          /\ e.ovr # {} /\ e.npbr # <<>>
    /\ \E e \in Evaluated :
          /\ nodes[e.node].origin = "recipe"
          /\ e.policy = profile
          /\ \E x \in Extends : x.node = e.node

\* the nodes some analyzer call was given
AnalyzedNodes == UNION {analyzeLog[k] : k \in 1..Len(analyzeLog)}

\* C11: the analyzer runs over a subgraph before the skip check of any of
\* its nodes: every node the loop has checked was in a subgraph given to
\* the analyzer and has its package id decided, and every call that is
\* past its first step (the initial one or the one on the subgraph an
\* extension returned) has had exactly its subgraph analyzed
C11_AnalyzedBeforeSkipCheck ==
    /\ \A e \in Evals :
          /\ e.node \in AnalyzedNodes
          /\ nodes[e.node].package_id # NoPackageId
    /\ \A k \in 1..Len(stack) :
          IF stack[k].phase = "analyze"
          THEN k = Len(stack) /\ stack[k].sub \cap AnalyzedNodes = {}
          ELSE \E j \in 1..Len(analyzeLog) : analyzeLog[j] = stack[k].sub

C11_Witness ==
    \E e \in Evals :
        /\ e.depth >= 2
        /\ nodes[e.node].origin # "initial"
        /\ nodes[e.node].binary = BINARY_BUILD
        /\ e.evaluated

\* C12: the graph has no cycle after the initial build and after every
\* extension (no edge leads to its own source or to a node its source is
\* reached from), and an extension with a requirement that is the extended
\* node or one of its ancestors has failed and has ended the resolution
C12_Acyclic ==
    /\ \A e \in edges : e[1] # e[2] /\ e[2] \notin Ancestors(edges, e[1])
    /\ \A x \in Extends :
          /\ (\E i \in 1..Len(x.reqs) :
                  LET m == FindRef(nodes, x.reqs[i])
                  IN m # 0 /\ (m = x.node \/ m \in Ancestors(edges, x.node)))
             => ~x.ok
          /\ ~x.ok => pc = "failed"

C12_Witness ==
    /\ pc = "failed"
    /\ \E x, y \in Extends :
          /\ ~x.ok
          /\ y.ok
          /\ \E i \in 1..Len(x.reqs) :
                 FindRef(nodes, x.reqs[i]) \in Ancestors(edges, x.node)

\* the initial build of the resolution's inputs ends in the builder's
\* cyclic-dependency error
InitialBuildFails ==
    ~BuilderLoadGraph(recipes, RootNode(recipes, rootKind, TxtRecipe(recipes))).ok

\* C13: when the initial build has failed on a cyclic requirement, the
\* resolution has ended with the error and no node has been through the
\* loop (so no build_requirements() callback has run), no subgraph has been
\* given to the analyzer and no extend call has been made
C13_CycleBeforeExpansion ==
    (pc \notin {"start", "init"} /\ InitialBuildFails)
        => /\ pc = "failed"
           /\ stack = <<>>
           /\ evalLog = <<>>
           /\ analyzeLog = <<>>
           /\ extendLog = <<>>

C13_Witness ==
    /\ pc = "failed"
    /\ InitialBuildFails
    /\ recipes[Ref("b", 1)].requires = <<Ref("a", 1)>>
    /\ rootKind = "py"
    /\ apply
    /\ Blanket(profile)

\* C14: after the initial build and every extension no two nodes of the
\* graph have the same identity, and every requirement of an extension
\* that succeeded is the one node of that identity, with an edge from the
\* extended node (two nodes extended with the same tool share its node)
C14_IdentityUnique ==
    /\ \A i, j \in 1..Len(nodes) : nodes[i].ref = nodes[j].ref => i = j
    /\ \A x \in Extends : x.ok =>
          \A i \in 1..Len(x.reqs) :
              \E m \in 1..Len(nodes) :
                  /\ nodes[m].ref = x.reqs[i]
                  /\ <<x.node, m>> \in edges

C14_Witness ==
    \E x, y \in Extends :
        /\ x.node # y.node
        /\ x.ok /\ y.ok
        /\ x.kind = "profile" /\ y.kind = "profile"
        /\ \E i \in 1..Len(profile.items) : profile.items[i].pattern = AMPNOT
        /\ \E i \in 1..Len(x.reqs), j \in 1..Len(y.reqs) :
               /\ x.reqs[i] = y.reqs[j]
               /\ Cardinality({m \in 1..Len(nodes) : nodes[m].ref = x.reqs[i]}) = 1
               /\ \E m \in 1..Len(nodes) :
                      {<<x.node, m>>, <<y.node, m>>} \subseteq edges

\* C15: over the whole expansion the recipe's build requirements (and with
\* them the build_requirements() callback) are evaluated at most once per
\* node, also for a node that several nodes require
C15_EvaluatedOnce ==
    \A i, j \in 1..Len(evalLog) :
        (evalLog[i].node = evalLog[j].node
         /\ evalLog[i].evaluated /\ evalLog[j].evaluated) => i = j

C15_Witness ==
    /\ pc = "done"
    /\ \E e \in Evaluated :
          /\ nodes[e.node].origin # "initial"
          /\ Cardinality({f \in edges : f[2] = e.node}) >= 2

\* C16: the expansion grows the one graph of the initial build: no step of
\* a call removes a node or an edge or puts another package in a node's place,
\* so the graph _load_graph returns holds everything every step added
C16_GraphOnlyGrows ==
    [][pc' # "start" =>
          /\ Len(nodes') >= Len(nodes)
          /\ \A i \in 1..Len(nodes) :
                /\ nodes'[i].ref = nodes[i].ref
                /\ nodes'[i].conanfile = nodes[i].conanfile
                /\ nodes'[i].recipe = nodes[i].recipe
          /\ edges \subseteq edges']_vars

C16_Witness ==
    /\ pc = "done"
    /\ \E x \in Extends, n \in 1..Len(nodes), m \in 1..Len(nodes) :
          /\ x.ok
          /\ nodes[n].by = x.node
          /\ nodes[m].origin = "initial"
          /\ <<n, m>> \in edges

\* C17 as stated: in every state no node is an entry of its own public
\* closure
C17_NeverOwnEntry_Original ==
    \A n \in 1..Len(nodes) : n \notin Range(nodes[n].public_closure)

\* C17: the closure-ordering pass takes the node's own entry out of its
\* closure and keeps every other entry exactly once: before the pass the
\* closure map of node N holds N (under N's name), after it the sequence
\* does not hold N and holds each other entry of the map once and nothing
\* else
C17_OwnEntryRemovedByOrdering ==
    [][(pc = "order" /\ pc' = "done") =>
          \A n \in 1..Len(nodes) :
              LET old == nodes[n].public_closure
                  new == nodes'[n].public_closure
              IN /\ n \in Range(old)
                 /\ n \notin Range(new)
                 /\ Range(new) = Range(old) \ {n}
                 /\ \A i, j \in 1..Len(new) : new[i] = new[j] => i = j]_vars

C17_Witness ==
    /\ pc = "done"
    /\ \E n \in 1..Len(nodes) :
          /\ Len(nodes[n].public_closure) >= 3
          /\ n \notin Range(nodes[n].public_closure)
          /\ nodes[n].recipe = RECIPE_INCACHE

\* the place of an entry in a sequence without repetitions
Pos(q, x) == CHOOSE k \in 1..Len(q) : q[k] = x

\* C18: the pass leaves every closure sorted by inverse level, and stably:
\* an entry never stands before one of a lower inverse level, and two
\* entries of the same inverse level stand in the order they had in the
\* closure map
C18_StableSortByInverseLevel ==
    [][(pc = "order" /\ pc' = "done") =>
          LET levels == InverseLevelIndex(edges, 1..Len(nodes))
          IN \A n \in 1..Len(nodes) :
                 LET old == nodes[n].public_closure
                     new == nodes'[n].public_closure
                 IN \A i, j \in 1..Len(new) : i < j =>
                        /\ levels[new[i]] <= levels[new[j]]
                        /\ levels[new[i]] = levels[new[j]]
                               => Pos(old, new[i]) < Pos(old, new[j])]_vars

C18_Witness ==
    /\ pc = "done"
    /\ LET levels == InverseLevelIndex(edges, 1..Len(nodes))
       IN \E n \in 1..Len(nodes) :
              LET c == nodes[n].public_closure
              IN \E i, j, k \in 1..Len(c) :
                     /\ i < j /\ j < k
                     /\ levels[c[i]] < levels[c[j]]
                     /\ levels[c[j]] = levels[c[k]]

\* X stands before Y in the closure of P
Before(P, X, Y) ==
    LET c == nodes[P].public_closure
    IN \E i, j \in 1..Len(c) : i < j /\ c[i] = X /\ c[j] = Y

Shared(P, Q) == Range(nodes[P].public_closure) \cap Range(nodes[Q].public_closure)

\* C19 as stated: any two dependencies that are in the ordered closures of
\* two nodes stand in the same order in both
C19_GloballyConsistent_Original ==
    pc = "done" =>
        \A P, Q \in 1..Len(nodes) : \A X, Y \in Shared(P, Q) :
            Before(P, X, Y) <=> Before(Q, X, Y)

\* C19: two dependencies of different inverse levels that are in the
\* ordered closures of two nodes stand in the same order in both (the one
\* of the lower inverse level first); two of the same inverse level stand
\* in each closure in the order that closure's map had them
C19_ConsistentAcrossLevels ==
    pc = "done" =>
        LET levels == InverseLevelIndex(edges, 1..Len(nodes))
        IN \A P, Q \in 1..Len(nodes) : \A X, Y \in Shared(P, Q) :
               levels[X] # levels[Y] =>
                   /\ Before(P, X, Y) <=> Before(Q, X, Y)
                   /\ Before(P, X, Y) <=> levels[X] < levels[Y]

C19_Witness ==
    /\ pc = "done"
    /\ LET levels == InverseLevelIndex(edges, 1..Len(nodes))
       IN \E P, Q \in 1..Len(nodes) : \E X, Y \in Shared(P, Q) :
              /\ P # Q
              /\ levels[X] < levels[Y]
              /\ Before(P, X, Y)
              /\ Before(Q, X, Y)
              /\ nodes[P].origin # nodes[Q].origin

\* the steps of load_graph that have run
Phases == Range(phases)

\* C21: a lock graph_info came with is never replaced: a lock is made from
\* the final graph only when graph_info had none before the call; a lock
\* that was there is only checked against the new graph, it stays the one
\* that was loaded, and the call returns only if the check found no
\* disagreement (else it ends with the error)
C21_LockNeverOverwritten ==
    IF graph_info0.graph_lock # NoLock
    THEN /\ graph_info.graph_lock = graph_info0.graph_lock
         /\ "seed" \notin Phases
         /\ pc = "returned" =>
                /\ "check" \in Phases
                /\ update_check_graph(nodes, edges, graph_info.graph_lock)
         /\ ("check" \in Phases
                /\ ~update_check_graph(nodes, edges, graph_info.graph_lock))
                => pc = "failed"
    ELSE /\ "check" \notin Phases
         /\ "seed" \in Phases <=> pc = "returned"
         /\ IF pc = "returned"
            THEN graph_info.graph_lock = GraphLock(nodes, edges)
            ELSE graph_info.graph_lock = NoLock

C21_Witness ==
    /\ pc = "failed"
    /\ "check" \in Phases
    /\ graph_info.graph_lock # NoLock
    /\ Len(nodes) > Len(graph_info.graph_lock)

\* the place of a step in load_graph
Rank(ph) ==
    CASE ph = "root" -> 1
      [] ph = "lock_read" -> 2
      [] ph = "build" -> 3
      [] ph = "round" -> 4
      [] ph = "order" -> 5
      [] ph \in {"seed", "check"} -> 6

\* the call was refused at line 129, before its first step
Refused == rootKind = "ref" /\ revision /\ ~revisions_enabled

\* C22: the steps of load_graph run in one order: the root is created and
\* looked up in the lock (if there is one and the request is not a list
\* of references), then the initial build, then
\* the expansion rounds, then the closure ordering, and last the lock is
\* made or checked; each step but the rounds runs at most once, the lock
\* is made or checked only after the ordering (so after every round and
\* never between two of them), and until then graph_info holds the lock
\* it came with
C22_PhaseOrder ==
    /\ \A i, j \in 1..Len(phases) : i < j =>
          /\ Rank(phases[i]) <= Rank(phases[j])
          /\ Rank(phases[i]) = Rank(phases[j]) => phases[i] = "round"
    /\ "lock_read" \in Phases <=>
          (graph_info0.graph_lock # NoLock /\ rootKind # "list" /\ pc # "start"
           /\ ~Refused)
    /\ "build" \in Phases => "root" \in Phases
    /\ "round" \in Phases => "build" \in Phases
    /\ "order" \in Phases => ("round" \in Phases /\ stack = <<>>)
    /\ (Phases \cap {"seed", "check"} # {}) => "order" \in Phases
    /\ (Phases \cap {"seed", "check"} = {})
          => graph_info.graph_lock = graph_info0.graph_lock

C22_Witness ==
    /\ "lock_read" \in Phases
    /\ "check" \in Phases
    /\ Cardinality({i \in 1..Len(phases) : phases[i] = "round"}) >= 2

GraphRefs == {nodes[i].ref : i \in 1..Len(nodes)}
LockRefs(lock) == {lock[i].ref : i \in 1..Len(lock)}

\* C24: a resolution given the lock that an earlier resolution of the same
\* request made either ends with the lock inconsistency error or returns
\* a graph with exactly the references the lock records; it never returns
\* a graph with another set of references
C24_LockRoundTrip ==
    (graph_info0.graph_lock # NoLock /\ "check" \in Phases) =>
        \/ pc = "failed" /\ ~update_check_graph(nodes, edges, graph_info0.graph_lock)
        \/ pc = "returned" /\ GraphRefs = LockRefs(graph_info0.graph_lock)

C24_Witness ==
    /\ pc = "returned"
    /\ graph_info0.graph_lock # NoLock
    /\ graph_info0.options = OptionsValues(root_node[1])
    /\ \E x \in Extends : x.ok /\ x.kind = "profile"
    /\ \E x \in Extends : x.ok /\ x.kind = "recipe"

\* the places in the history where a name was given
AddsOf(name) == {k \in 1..Len(added) : added[k].name = name}

Min(S) == CHOOSE x \in S : \A y \in S : x <= y

\* C26: after any sequence of add, call and update the container holds
\* one entry for each name it was given and no other, the entry of a name
\* is the reference of the last add with that name, the entries stand in
\* the order of the first adds of their names, and adding a reference the
\* container holds under its name changes nothing
C26_ReplaceInPlace ==
    /\ \A i, j \in 1..Len(build_requires) :
          build_requires[i].name = build_requires[j].name => i = j
    /\ {build_requires[i].name : i \in 1..Len(build_requires)}
          = {added[k].name : k \in 1..Len(added)}
    /\ \A i \in 1..Len(build_requires) :
          build_requires[i] = added[Max(AddsOf(build_requires[i].name))]
    /\ \A i, j \in 1..Len(build_requires) : i < j =>
          Min(AddsOf(build_requires[i].name)) < Min(AddsOf(build_requires[j].name))
    /\ \A i \in 1..Len(build_requires) :
          add(build_requires, build_requires[i]) = build_requires

C26_Witness ==
    /\ Len(added) = MaxOps
    /\ Len(build_requires) = 2
    /\ build_requires[1] = added[3]
    /\ build_requires[1] # added[1]
    /\ build_requires[1].name = added[1].name

\* C27: a call creates one root node, a Virtual node without reference for
\* a reference or a list of references and the Consumer node for a path;
\* the root is the first node of the graph and no node the initial build
\* or an extension added is a Consumer (or a Virtual) node, so the graph
\* has at most one Consumer
C27_OneRoot ==
    /\ Cardinality({i \in 1..Len(phases) : phases[i] = "root"})
          = (IF pc = "start" \/ Refused THEN 0 ELSE 1)
    /\ root_node # <<>> =>
          /\ Len(root_node) = 1
          /\ rootKind \in {"ref", "list"} =>
                (root_node[1].recipe = RECIPE_VIRTUAL /\ root_node[1].ref = NoRef)
          /\ rootKind \in {"py", "txt"} => root_node[1].recipe = RECIPE_CONSUMER
    /\ nodes # <<>> =>
          /\ nodes[1].recipe = root_node[1].recipe
          /\ nodes[1].ref = root_node[1].ref
          /\ nodes[1].conanfile = root_node[1].conanfile
    /\ \A i \in 2..Len(nodes) :
          nodes[i].recipe \notin {RECIPE_CONSUMER, RECIPE_VIRTUAL}
    /\ Cardinality({i \in 1..Len(nodes) : nodes[i].recipe = RECIPE_CONSUMER}) <= 1

C27_Witness ==
    /\ rootKind = "list"
    /\ pc = "returned"
    /\ Len(nodes) >= 5
    /\ \E i \in 1..Len(nodes) : nodes[i].origin = "profile"

Looping == {k \in 1..Len(stack) : stack[k].phase # "analyze"}

\* C32: in every call whose loop has started, the nodes the loop has been at
\* are the first nodes of the call's order, that order holds every node of
\* the subgraph once, and a node comes in it after every node of the
\* subgraph it depended on when the loop started; when the loop comes to a
\* node, it has been at every node of the subgraph that node depends on;
\* as long as the call is active its order stays what it was, whatever the
\* call adds to the graph.
C32_RoundInDependencyOrder ==
    [][ /\ \A k \in Looping' :
              LET f == stack'[k]
              IN /\ Len(f.order) = Cardinality(f.sub)
                 /\ Range(f.order) = f.sub
                 /\ Len(f.visited) <= Len(f.order)
                 /\ f.visited = SubSeq(f.order, 1, Len(f.visited))
                 /\ \A e \in f.deps :
                       (e[1] \in f.sub /\ e[2] \in f.sub) =>
                           Pos(f.order, e[2]) < Pos(f.order, e[1])
        /\ Len(evalLog') > Len(evalLog) =>
              \A e \in edges :
                  (e[1] = Top.order[Top.idx] /\ e[2] \in Top.sub) =>
                      e[2] \in Range(Top.visited)
        /\ \A k \in Looping :
              (k <= Len(stack') /\ pc' = "expand") =>
                  /\ stack'[k].order = stack[k].order
                  /\ stack'[k].sub = stack[k].sub
      ]_vars

\* a call has been at a node after a node that node requires, and the graph
\* has grown since its loop started
C32_Witness ==
    /\ pc = "expand"
    /\ \E k \in Looping :
          /\ Len(stack) > k
          /\ Len(nodes) > Cardinality(stack[k].sub)
          /\ \E i, j \in 1..Len(stack[k].visited) :
                /\ i < j
                /\ <<stack[k].visited[j], stack[k].visited[i]>> \in stack[k].deps

\* the extend calls that returned a subgraph
OkExtends == {i \in 1..Len(extendLog) : extendLog[i].ok}

\* the nodes of the initial build
InitialGraph == {i \in 1..Len(nodes) : nodes[i].origin = "initial"}

\* C33: the analyzer is called once per round: the first call is given the
\* initial graph, call k + 1 is given the subgraph extend call k returned,
\* no call is made without the round that goes with it, and when the
\* expansion has returned there is one call more than there were extend
\* calls.
C33_AnalyzerOncePerRound ==
    /\ Len(analyzeLog) <= 1 + Cardinality(OkExtends)
    /\ Cardinality(OkExtends) <= Len(analyzeLog)
    /\ Len(analyzeLog) >= 1 => analyzeLog[1] = InitialGraph
    /\ \A k \in 1..Len(extendLog) :
          k + 1 <= Len(analyzeLog) => analyzeLog[k + 1] = extendLog[k].sub
    /\ pc \in {"order", "done", "returned"} =>
          Len(analyzeLog) = 1 + Len(extendLog)

\* a resolution that has returned after three extend calls
C33_Witness ==
    /\ pc = "returned"
    /\ Len(extendLog) = 3
    /\ Len(analyzeLog) = 4
    /\ analyzeLog[4] # {}

\* C34: with apply_build_requires false no node is evaluated, no callback
\* runs and no extension is made; the one analyzer call is given the whole
\* initial graph, and a graph that is returned has the nodes of the initial
\* build only and has gone through the closure ordering.
C34_NoExpansionWithoutApply ==
    ~apply =>
        /\ evalLog = <<>>
        /\ extendLog = <<>>
        /\ Len(analyzeLog) <= 1
        /\ \A i \in 1..Len(nodes) : nodes[i].origin = "initial"
        /\ pc \in {"order", "done", "returned"} =>
              /\ Len(analyzeLog) = 1
              /\ analyzeLog[1] = 1..Len(nodes)
        /\ pc \in {"done", "returned"} =>
              /\ "order" \in Phases
              /\ \A i \in 1..Len(nodes) : i \notin Range(nodes[i].public_closure)

\* a returned graph with a node that is to be built and whose recipe
\* declares build requirements
C34_Witness ==
    /\ ~apply
    /\ pc = "returned"
    /\ \E i \in 1..Len(nodes) :
          /\ nodes[i].binary = BINARY_BUILD
          /\ get_recipe_build_requires(nodes[i].conanfile) # <<>>
          /\ nodes[i].public_closure # <<>>

\* the names of a list of references, in its order
Names(rs) == [i \in 1..Len(rs) |-> rs[i].name]

\* C35: at every evaluated node the names of package_build_requires after
\* the profile was applied, and their order, are those the recipe gave
\* (attribute, then callback); every reference that differs was named by the
\* profile; no name of new_profile_build_requires is a name of
\* package_build_requires.
C35_OverlayChangesValuesOnly ==
    \A e \in Evaluated :
        /\ Names(e.pbr) = Names(e.recipe_br)
        /\ \A i \in 1..Len(e.pbr) :
              e.pbr[i] # e.recipe_br[i] => e.pbr[i].name \in e.ovr
        /\ Range(Names(e.npbr)) \cap Range(Names(e.pbr)) = {}

\* a node with two recipe build requirements, the first of them replaced by
\* the profile, and a profile-only requirement
C35_Witness ==
    \E e \in Evaluated :
        /\ Len(e.pbr) >= 2
        /\ e.pbr[1] # e.recipe_br[1]
        /\ e.npbr # <<>>

\* C36 as claimed: a profile-only list passed to extend holds at most one
\* requirement per package name.
C36_OnePerName_Original ==
    \A x \in Extends : x.kind = "profile" =>
        \A i, j \in 1..Len(x.reqs) : x.reqs[i].name = x.reqs[j].name => i = j

\* the requirements of a list that the profile-only list of a node takes
ProfileOnly(e, rs) ==
    SelectSeq(rs, LAMBDA r : /\ ~HasName(e.recipe_br, r.name)
                             /\ r.name # NodeName(nodes[e.node]))

\* C36 (amended): the profile-only list of a node holds, in policy order,
\* one entry for every requirement of every matching pattern whose name is
\* neither a name of the recipe's build requirements nor the node's own: a
\* name that several matching patterns declare is in it several times.
C36_OnePerMatchingDeclaration ==
    /\ \A e \in Evaluated :
          e.npbr = ProfileOnly(e, MatchingReqs(nodes[e.node], e.policy.items))
    /\ \A x \in Extends : x.kind = "profile" =>
          \E e \in Evaluated : e.node = x.node /\ e.npbr = x.reqs

\* a profile-only extension with two versions of one package, and one with
\* the same reference twice
C36_Witness ==
    /\ \E x \in Extends :
          /\ x.kind = "profile"
          /\ \E i, j \in 1..Len(x.reqs) :
                i < j /\ x.reqs[i].name = x.reqs[j].name /\ x.reqs[i] # x.reqs[j]
    /\ \E x \in Extends :
          /\ x.kind = "profile"
          /\ \E i, j \in 1..Len(x.reqs) : i < j /\ x.reqs[i] = x.reqs[j]

\* C37: a profile-only extension at a node is made with the list the
\* node's evaluation computed; a recipe extension at the same node was made
\* before it, from the same call, with the list of that evaluation, and
\* every extension between the two was made deeper in the recursion, did
\* not fail, and has had every node of its subgraph visited after the
\* node's evaluation.
C37_RecipeExtensionFirst ==
    \A j \in 1..Len(extendLog) :
        extendLog[j].kind = "profile" =>
            \E p \in 1..Len(evalLog) :
                /\ evalLog[p].node = extendLog[j].node
                /\ evalLog[p].evaluated
                /\ extendLog[j].reqs = evalLog[p].npbr
                /\ \A i \in 1..Len(extendLog) :
                      (extendLog[i].node = extendLog[j].node
                       /\ extendLog[i].kind = "recipe") =>
                          /\ i < j
                          /\ extendLog[i].depth = extendLog[j].depth
                          /\ extendLog[i].reqs = evalLog[p].pbr
                          /\ \A k \in i..(j - 1) :
                                /\ extendLog[k].ok
                                /\ k > i => extendLog[k].depth > extendLog[j].depth
                                /\ \A n \in extendLog[k].sub :
                                      \E q \in (p + 1)..Len(evalLog) :
                                          evalLog[q].node = n

\* a node with both extensions, the recursion of the first having made an
\* extension of its own
C37_Witness ==
    \E i, j \in 1..Len(extendLog) :
        /\ extendLog[i].node = extendLog[j].node
        /\ extendLog[i].kind = "recipe"
        /\ extendLog[j].kind = "profile"
        /\ j > i + 1

\* C38: a call with a single reference that carries a revision, while
\* revisions are not enabled, ends with an error at its first step: no root
\* node was created, no recipe was loaded into a graph, no step of the
\* resolution ran, and graph_info is what it was before the call.
C38_RevisionRefused ==
    (rootKind = "ref" /\ revision /\ ~revisions_enabled /\ pc # "start") =>
        /\ pc = "failed"
        /\ root_node = <<>>
        /\ nodes = <<>>
        /\ edges = {}
        /\ phases = <<>>
        /\ analyzeLog = <<>>
        /\ evalLog = <<>>
        /\ extendLog = <<>>
        /\ graph_info = graph_info0

\* the refused call had come with a lock
C38_Witness ==
    /\ rootKind = "ref"
    /\ revision
    /\ ~revisions_enabled
    /\ pc = "failed"
    /\ graph_info.graph_lock # NoLock

\* C39: after a call of load_deps_info: with an empty folder argument the
\* conanfile is as before and nothing is raised; with a readable file the
\* three deps attributes are the ones loaded from it; with a missing file
\* and required the call has raised the not-found error and the conanfile
\* is as before; with a missing file and not required nothing is raised and
\* deps_cpp_info and deps_user_info are the objects whose access raises the
\* not-defined error; with an unparsable file the call has raised the parse
\* error. An access to an attribute that such a call left raises not-defined.
C39_LoadDepsInfoOutcomes ==
    /\ deps.last = "load" =>
          /\ deps.current_path = "" =>
                deps.conanfile = deps.before /\ deps.raised = ""
          /\ (deps.current_path # "" /\ deps.was.state = "ok") =>
                /\ deps.raised = ""
                /\ \A f \in DepsFields :
                      deps.conanfile[f] = [kind |-> "info", name |-> f,
                                           val |-> deps.was.info]
          /\ (deps.current_path # "" /\ deps.was.state = "missing" /\ deps.required) =>
                deps.raised = NotFound /\ deps.conanfile = deps.before
          /\ (deps.current_path # "" /\ deps.was.state = "missing" /\ ~deps.required) =>
                /\ deps.raised = ""
                /\ deps.conanfile["deps_cpp_info"].kind = "forbidden"
                /\ deps.conanfile["deps_user_info"].kind = "forbidden"
          /\ (deps.current_path # "" /\ deps.was.state = "garbage") =>
                deps.raised = ParseError
    /\ (deps.last = "access" /\ deps.conanfile[deps.field].kind = "forbidden") =>
          /\ deps.raised = NotDefined
          /\ deps.field \in {"deps_cpp_info", "deps_user_info"}

\* deps_user_info is read after a call that found no file and did not
\* require one, made on a conanfile that had loaded attributes
C39_Witness ==
    /\ deps.last = "access"
    /\ deps.field = "deps_user_info"
    /\ deps.raised = NotDefined
    /\ deps.was.state = "missing"
    /\ ~deps.required
    /\ deps.before["deps_user_info"].kind = "info"
    /\ deps.conanfile["deps_env_info"].kind = "info"

====
